---- MODULE Spec2Model ----
(***************************************************************************)
(* Model of the dataEnrichmentTool desktop pipeline (main.py and the stage *)
(* modules contactEnrich, companyEnrich, jsonParser, contactSearch,        *)
(* addNewContact, auth, fileConvert).                                      *)
(*                                                                         *)
(* A record is a Python dict: a function from the keys it holds to string  *)
(* values.  entry[k] on an absent key raises KeyError, entry.get(k) gives  *)
(* None.  The dataset file is a sequence of records.                       *)
(***************************************************************************)
EXTENDS Integers, Sequences, FiniteSets, TLC

VARIABLES
    env,            \* the environment the run is checked in (see Environments)
    input_csv,      \* the input CSV file: a list of rows, each a dict header -> value
    output_csv,     \* the output CSV file, <<>> until it is written
    disk,           \* the dataset file (list of records) as last written
    driver,         \* "main": main.main(); "stages": the stage functions called one by one;
                    \* "address": jsonParser.update_address called on a file of its own;
                    \* "handler": lambda_function.handler on one S3 event;
                    \* "process": EnrichmentProcessor.process(); "methods": the methods of
                    \* EnrichmentProcessor called one by one; "mapping": the conversions
                    \* CSV -> records -> CSV called back to back
    pc,             \* program point of the driver
    called,         \* stage functions that have returned in this run
    old_data,       \* the list a stage loaded (old_data / data); entries mutate in place
    merged_data,    \* merged_data of the stages that build one
    idx,            \* 1-based index of the next record of the stage's loop; 0 outside a stage
                    \* (method calls of EnrichmentProcessor: the entry last passed to one)
    jwt_token,      \* the session token (NoneToken for Python None)
    last_auth_time, \* the session timestamp
    now,            \* the wall clock, time.time()
    check_time,     \* the clock as read by the latest token check, -1 before the first
    issued,         \* number of tokens the auth endpoint has issued
    authFailed,     \* an authenticate() call of this run has failed
    requests,       \* provider requests sent so far, each with the answer it got
    response,       \* the provider's answer to the request of the latest loop body
    error,          \* the exception that ended the run, "none" otherwise
    count,          \* return value of the last updateNeedsContact, -1 before
    calls,          \* number of method calls the "methods" driver has made
    key,            \* lambda_function.handler: the object key of the S3 event (NoKey elsewhere)
    tmp,            \* lambda_function.handler: the names of the files in TEMP_DIR
    uploaded,       \* lambda_function.handler: the keys of the objects uploaded to the bucket
    verdict         \* lambda_function.handler: "none" while it runs, then "ignored",
                    \* "processed" (the two 200 returns) or "EnrichmentError"

vars == <<key, tmp, uploaded, verdict, calls, env, input_csv, output_csv, disk, driver, pc, called, old_data, merged_data, idx, jwt_token,
          last_auth_time, now, check_time, issued, authFailed, requests, response,
          error, count>>

----------------------------------------------------------------------------
(* Bounds *)

NumRecords == 2          \* rows of the input CSV in the "plain" environment
RichRows == 1            \* rows of the input CSV in the "rich" environment
MaxTime == 6600          \* the clock is not advanced past this many seconds

(* Python None as a token value (auth.authenticate returns None on non-200) *)
NoneToken == 0

(* 55*60 seconds: the refresh threshold used by every stage *)
TokenLifetime == 55 * 60

(* Seconds that can pass between two reads of the clock. *)
Delays == {0, TokenLifetime - 1, TokenLifetime}

(* Seconds auth.authenticate can take (clock read after the call returns). *)
AuthDelays == {0, 1}

(* The environments a run is checked in.
   "rich":  a CSV of RichRows rows of every shape, every provider answer,
            calls that take no measurable time.
   "plain": a CSV of NumRecords rows of the plain shapes, the plain provider
            answers, calls that take no measurable time.
   "clock": a CSV of NumRecords rows without contact data, a provider that
            answers no-match or an error, and a clock that advances. *)
Environments == {"rich", "plain", "clock"}

DelaysOf(ds) == IF env = "clock" THEN ds ELSE {0}

----------------------------------------------------------------------------
(* Python dict helpers *)

Has(d, k) == k \in DOMAIN d

(* d[k] = v  (adds the key when absent) *)
Put(d, k, v) == [x \in DOMAIN d \cup {k} |-> IF x = k THEN v ELSE d[x]]

(* d.update(e) *)
Update(d, e) == [x \in DOMAIN d \cup DOMAIN e |-> IF x \in DOMAIN e THEN e[x] ELSE d[x]]

(* d.get(k, default) *)
Get(d, k, default) == IF k \in DOMAIN d THEN d[k] ELSE default

(* Python truthiness of a string value *)
Truthy(v) == v # ""

----------------------------------------------------------------------------
(* fileConvert.csv_to_json *)

header_mapping ==
    [h \in {"Supplier Company", "Supplier First Name", "Supplier Last Name",
            "Supplier Email", "Supplier Phone", "Supplier Street", "Supplier City",
            "Supplier State", "Supplier Zip Code", "Supplier Country", "Site Name",
            "Site ID", "Additional Contact Info"} |->
        CASE h = "Supplier Company" -> "companyName"
          [] h = "Supplier First Name" -> "firstName"
          [] h = "Supplier Last Name" -> "lastName"
          [] h = "Supplier Email" -> "emailAddress"
          [] h = "Supplier Phone" -> "phone"
          [] h = "Supplier Street" -> "companyStreet"
          [] h = "Supplier City" -> "companyCity"
          [] h = "Supplier State" -> "companyState"
          [] h = "Supplier Zip Code" -> "companyZipCode"
          [] h = "Supplier Country" -> "companyCountry"
          [] h = "Site Name" -> "siteName"
          [] h = "Site ID" -> "siteID"
          [] h = "Additional Contact Info" -> "additionalContactInfo"]

new_json_values ==
    [k \in {"zi_c_name", "zi_c_company_id", "zi_c_company_name", "zi_c_phone",
            "zi_c_url", "zi_c_naics6", "sectorTitle", "primaryIndustry",
            "zi_c_employees", "zi_c_street", "zi_c_city", "zi_c_state", "zi_c_zip",
            "zi_c_country", "zi_c_location_id", "needsContact", "newContactFound",
            "personId", "contactMatchCriteria", "enrichmentStatus", "errorMessage"} |->
        IF k = "enrichmentStatus" THEN "Success" ELSE ""]

(* One CSV row (header -> value) to one record *)
MapRow(row) ==
    LET keys == {Get(header_mapping, h, h) : h \in DOMAIN row}
        mapped_row == [k \in keys |->
            row[CHOOSE h \in DOMAIN row : Get(header_mapping, h, h) = k]]
    IN Update(mapped_row, new_json_values)

csv_to_json(rows) == [i \in 1..Len(rows) |-> MapRow(rows[i])]

----------------------------------------------------------------------------
(* The input CSV files the model draws from *)

TemplateHeaders == DOMAIN header_mapping

(* Columns a CSV may carry besides the template's; csv_to_json passes them through *)
ExtraHeaders == {"zi_c_industry_primary", "zi_c_sub_industry_primary", "jobTitle"}

(* The headers of the CSV files drawn: the template's, the template's with the
   two industry columns, the template's with every extra column *)
HeaderChoices ==
    { TemplateHeaders,
      TemplateHeaders \cup (ExtraHeaders \ {"jobTitle"}),
      TemplateHeaders \cup ExtraHeaders }

ContactHeaders == {"Supplier First Name", "Supplier Last Name", "Supplier Email", "Supplier Phone"}

AddressHeaders == {"Supplier Street", "Supplier City", "Supplier State", "Supplier Zip Code"}

(* Row shapes: which contact columns are filled, whether the address is filled,
   and whether the values come padded with spaces. *)
RowShapes ==
    { [contact |-> ContactHeaders, address |-> TRUE,  pad |-> FALSE],
      [contact |-> {},             address |-> FALSE, pad |-> TRUE],
      [contact |-> {"Supplier Email"}, address |-> TRUE, pad |-> TRUE] }

(* The shapes of the "plain" environment *)
PlainShapes ==
    { [contact |-> ContactHeaders, address |-> TRUE,  pad |-> FALSE],
      [contact |-> {},             address |-> FALSE, pad |-> FALSE] }

SiteId(i) == CASE i = 1 -> "s1" [] i = 2 -> "s2" [] i = 3 -> "s3" [] OTHER -> "s4"

Row(headers, shape, i) ==
    [h \in headers |->
        CASE h = "Site ID" -> SiteId(i)
          [] h = "Supplier Company" -> IF shape.pad THEN " orig " ELSE "orig"
          [] h = "Supplier Country" -> "orig"
          [] h \in ContactHeaders ->
                IF h \in shape.contact THEN "orig"
                ELSE IF shape.pad /\ h = "Supplier First Name" THEN " " ELSE ""
          [] h \in AddressHeaders -> IF shape.address THEN "orig" ELSE ""
          [] OTHER -> ""]

CsvOf(n, shapeSet) ==
    { [i \in 1..n |-> Row(hs, shapes[i], i)] :
        hs \in HeaderChoices, shapes \in [1..n -> shapeSet] }

RowsOf(e) == IF e = "rich" THEN RichRows ELSE NumRecords

(* The shape of the "clock" environment *)
ClockShapes == { [contact |-> {}, address |-> FALSE, pad |-> FALSE] }

CsvFiles(e) ==
    CASE e = "rich" -> CsvOf(RichRows, RowShapes)
      [] e = "plain" -> CsvOf(NumRecords, PlainShapes)
      [] e = "clock" -> CsvOf(NumRecords, ClockShapes)

----------------------------------------------------------------------------
(* jsonParser.remove_spaces: ' '.join(value.strip().split()) on the model's values *)

StripJoin(v) ==
    CASE v = " orig " -> "orig"
      [] v = " " -> ""
      [] OTHER -> v

remove_spaces_record(record) == [k \in DOMAIN record |-> StripJoin(record[k])]

----------------------------------------------------------------------------
(* auth.authenticate and the per-record token check of every stage *)

(* What the auth endpoint can do: answer 200 with a jwt, answer non-200,
   or be unreachable (requests raises ConnectionError). *)
AuthOutcomes == {"ok", "denied", "unreachable"}

(* auth.authenticate: the jwt on 200, None otherwise; raises when unreachable *)
authenticate(outcome, n) ==
    [raised |-> IF outcome = "unreachable" THEN "ConnectionError" ELSE "none",
     token  |-> IF outcome = "ok" THEN n + 1 ELSE NoneToken,
     issued |-> IF outcome = "ok" THEN n + 1 ELSE n]

(* A check that finds every session stale *)
Stale_always(t, last) == TRUE

(* The check with the boundary second excluded *)
Stale_strict(t, last) == t - last > TokenLifetime

(* time.time() - last_auth_time >= 55*60 *)
Stale(t, last) == t - last >= TokenLifetime

(* The check at the top of each loop body:
     if time.time() - last_auth_time >= 55*60:
         jwt_token = auth.authenticate(username, password)
         last_auth_time = time.time()
   t1 and t2 are the two clock reads (t2 after authenticate returned). *)
TokenCheck(tok, last, n, t1, outcome, t2) ==
    IF Stale(t1, last)
    THEN LET a == authenticate(outcome, n)
         IN [raised |-> a.raised, attempted |-> TRUE, checked |-> t1,
             failed |-> outcome # "ok",
             token  |-> IF a.raised = "none" THEN a.token ELSE tok,
             last   |-> IF a.raised = "none" THEN t2 ELSE last,
             issued |-> a.issued,
             now    |-> IF a.raised = "none" THEN t2 ELSE t1]
    ELSE [raised |-> "none", attempted |-> FALSE, failed |-> FALSE, checked |-> t1,
          token |-> tok, last |-> last, issued |-> n, now |-> t1]

DelaysFrom(t, ds) == {d \in DelaysOf(ds) : t + d <= MaxTime}

----------------------------------------------------------------------------
(* Provider responses.  A response is [status, text, success, hasData, result]:
   the HTTP status, the error body, and of the JSON body the 'success' flag,
   whether it has a 'data' key, and data.result (a list of dicts). *)

PersonFull == [firstName |-> "zi", lastName |-> "zi", email |-> "zi",
               phone |-> "zi", jobTitle |-> "zi"]

PersonPartial == [firstName |-> "zi", lastName |-> "zi", email |-> "zi",
                  phone |-> "", jobTitle |-> ""]

PersonNoPhone == [firstName |-> "zi", lastName |-> "zi", email |-> "zi"]

Ok(result) == [status |-> 200, text |-> "", success |-> TRUE, hasData |-> TRUE,
               result |-> result]

Http500 == [status |-> 500, text |-> "err500", success |-> FALSE, hasData |-> FALSE,
            result |-> <<>>]

(* HTTP 400: the provider rejects the request as sent *)
Http400 == [status |-> 400, text |-> "err400", success |-> FALSE, hasData |-> FALSE,
            result |-> <<>>]

NotSuccess == [status |-> 200, text |-> "", success |-> FALSE, hasData |-> FALSE,
               result |-> <<>>]

(* No answer: the loop body has sent no request *)
NoResponse == [status |-> 0, text |-> "", success |-> FALSE, hasData |-> FALSE,
               result |-> <<>>]

(* Answers of the person match/enrich endpoint (enrich/contact) *)
ContactResponses ==
    { Http500, NotSuccess,
      Ok(<<>>),
      Ok(<< [matchStatus |-> "NO_MATCH", data |-> <<>>] >>),
      Ok(<< [matchStatus |-> "FULL_MATCH", data |-> <<PersonFull>>] >>),
      Ok(<< [matchStatus |-> "CONTACT_ONLY_MATCH", data |-> <<PersonPartial>>] >>),
      Ok(<< [matchStatus |-> "FULL_MATCH", data |-> <<>>] >>),
      Ok(<< [matchStatus |-> "FULL_MATCH", data |-> <<PersonNoPhone>>] >>) }

fields_to_update ==
    << "zi_c_location_id", "zi_c_company_name", "zi_c_phone", "zi_c_url",
       "zi_c_naics6", "zi_c_industry_primary", "zi_c_sub_industry_primary",
       "zi_c_employees", "zi_c_street", "zi_c_city", "zi_c_state",
       "zi_c_zip", "zi_c_country", "zi_c_name", "zi_c_company_id" >>

FieldSet == {fields_to_update[i] : i \in 1..Len(fields_to_update)}

CompanyFull(v) == [k \in FieldSet |-> v]

CompanyPartial(v) == [k \in {"zi_c_location_id", "zi_c_name", "zi_c_company_id"} |-> v]

(* Answers of the company match/enrich endpoint (enrich/company-master) *)
CompanyResponses ==
    { Http500, Http400, NotSuccess,
      Ok(<<>>),
      Ok(<< [data |-> CompanyFull("ziA")] >>),
      Ok(<< [data |-> CompanyPartial("ziB")] >>) }

(* Answers of the person search endpoint (search/contact); `result` holds the
   body's 'data' list *)
SearchResponses ==
    { Http500, NotSuccess,
      Ok(<<>>),
      Ok(<< [id |-> "p1"] >>),
      Ok(<< [id |-> ""] >>),
      Ok(<< [name |-> "zi"] >>) }

(* The plain answers: an error, no match, a full match *)
PlainResponses ==
    { Http500, NotSuccess,
      Ok(<< [matchStatus |-> "FULL_MATCH", data |-> <<PersonFull>>] >>),
      Ok(<< [data |-> CompanyFull("ziA")] >>),
      Ok(<< [id |-> "p1"] >>) }

(* The answers of the "clock" environment *)
ClockResponses == { Http500, NotSuccess }

Answers(responses) ==
    CASE env = "rich" -> responses
      [] env = "plain" -> responses \cap PlainResponses
      [] env = "clock" -> responses \cap ClockResponses

(* A usable company result: success and a result[0].data *)
Usable(resp) ==
    /\ resp.status = 200
    /\ resp.success
    /\ resp.hasData
    /\ Len(resp.result) > 0
    /\ Has(resp.result[1], "data")

----------------------------------------------------------------------------
(* The request functions: on a non-200 status they mark the entry and return
   None, otherwise they return the JSON body. *)

MarkFailed(entry, resp) ==
    Put(Put(entry, "enrichmentStatus", "Failed"), "errorMessage", resp.text)

(* contactEnrich.get_contact_enrichment_data *)
get_contact_enrichment_data(entry, resp) ==
    IF resp.status # 200
    THEN [entry |-> MarkFailed(entry, resp), isNone |-> TRUE]
    ELSE [entry |-> entry, isNone |-> FALSE]

(* companyEnrich.get_company_enrichment_data *)
get_company_enrichment_data(entry, resp) ==
    IF resp.status # 200
    THEN [entry |-> MarkFailed(entry, resp), isNone |-> TRUE]
    ELSE [entry |-> entry, isNone |-> FALSE]

(* companyEnrich.get_company_enrichment_data_loose *)
get_company_enrichment_data_loose(entry, resp) ==
    IF resp.status # 200
    THEN [entry |-> MarkFailed(entry, resp), isNone |-> TRUE]
    ELSE [entry |-> entry, isNone |-> FALSE]

----------------------------------------------------------------------------
(* The merge functions.  Each returns [entry, raised]: the entry as mutated
   up to the point an exception was raised, and the exception ("none"). *)

(* A merge that takes every value the provider supplies *)
FillPerson_overwrite(st, ekey, person_data, pkey) ==
    IF st.raised # "none" THEN st
    ELSE IF ~Has(st.entry, ekey) THEN [st EXCEPT !.raised = "KeyError"]
    ELSE IF ~Has(person_data, pkey) THEN [st EXCEPT !.raised = "KeyError"]
    ELSE IF Truthy(person_data[pkey])
         THEN [st EXCEPT !.entry = Put(st.entry, ekey, person_data[pkey])]
         ELSE st

(* if not entry[ekey] and person_data[pkey]: entry[ekey] = person_data[pkey] *)
FillPerson(st, ekey, person_data, pkey) ==
    IF st.raised # "none" THEN st
    ELSE IF ~Has(st.entry, ekey) THEN [st EXCEPT !.raised = "KeyError"]
    ELSE IF Truthy(st.entry[ekey]) THEN st
    ELSE IF ~Has(person_data, pkey) THEN [st EXCEPT !.raised = "KeyError"]
    ELSE IF Truthy(person_data[pkey])
         THEN [st EXCEPT !.entry = Put(st.entry, ekey, person_data[pkey])]
         ELSE st

(* contactEnrich.update_contact_data *)
update_contact_data(entry, new_data_item) ==
    IF Len(new_data_item.data) = 0
    THEN [entry |-> entry, raised |-> "IndexError"]
    ELSE LET person_data == new_data_item.data[1]
             s0 == [entry |-> entry, raised |-> "none"]
             s1 == FillPerson(s0, "firstName", person_data, "firstName")
             s2 == FillPerson(s1, "lastName", person_data, "lastName")
             s3 == FillPerson(s2, "emailAddress", person_data, "email")
         IN FillPerson(s3, "phone", person_data, "phone")

(* A merge that takes every field the provider supplies *)
FillCompany_overwrite(st, field, company_data) ==
    IF st.raised # "none" THEN st
    ELSE IF ~Has(st.entry, field) THEN [st EXCEPT !.raised = "KeyError"]
    ELSE IF Has(company_data, field)
         THEN [st EXCEPT !.entry = Put(st.entry, field, company_data[field])]
         ELSE st

(* if entry[field] == '' and field in company_data: entry[field] = company_data[field] *)
FillCompany(st, field, company_data) ==
    IF st.raised # "none" THEN st
    ELSE IF ~Has(st.entry, field) THEN [st EXCEPT !.raised = "KeyError"]
    ELSE IF st.entry[field] = "" /\ Has(company_data, field)
         THEN [st EXCEPT !.entry = Put(st.entry, field, company_data[field])]
         ELSE st

RECURSIVE FillCompanyFields(_, _, _)
FillCompanyFields(st, i, company_data) ==
    IF i > Len(fields_to_update) THEN st
    ELSE FillCompanyFields(FillCompany(st, fields_to_update[i], company_data),
                           i + 1, company_data)

(* companyEnrich.update_company_data *)
update_company_data(entry, new_data) ==
    IF new_data.hasData /\ Len(new_data.result) > 0
    THEN IF ~Has(new_data.result[1], "data")
         THEN [entry |-> entry, raised |-> "KeyError"]
         ELSE FillCompanyFields([entry |-> entry, raised |-> "none"], 1,
                                new_data.result[1].data)
    ELSE [entry |-> entry, raised |-> "none"]

(* companyEnrich.update_company_data_loose *)
update_company_data_loose(entry, new_data) ==
    IF new_data.hasData /\ Len(new_data.result) > 0
    THEN IF ~Has(new_data.result[1], "data")
         THEN [entry |-> entry, raised |-> "KeyError"]
         ELSE FillCompanyFields([entry |-> entry, raised |-> "none"], 1,
                                new_data.result[1].data)
    ELSE [entry |-> entry, raised |-> "none"]

----------------------------------------------------------------------------
(* The drivers *)

(* main.main from line 80 on: the calls it makes, in order *)
MainOrder ==
    << "remove_spaces", "authenticate", "contact_enrich", "company_enrich",
       "company_enrich_loose", "updateNeedsContact", "contact_search",
       "add_new_contact", "update_address", "json_to_csv" >>

(* The stage functions of the modules, in pipeline order, for a caller that
   calls them one by one *)
StageOrder ==
    << "remove_spaces", "authenticate", "contact_enrich", "company_enrich",
       "company_enrich_loose", "updateNeedsContact", "contact_search_strict",
       "contact_search_loose", "add_new_contact", "update_address" >>

Order == IF driver = "main" THEN MainOrder ELSE StageOrder

(* The program point after the call at p returns *)
After(p) ==
    LET i == CHOOSE j \in 1..Len(Order) : Order[j] = p
    IN IF i = Len(Order) THEN "done" ELSE Order[i + 1]

(* Stages that append each entry to merged_data and dump merged_data *)
MergedStages == {"contact_enrich", "company_enrich", "company_enrich_loose", "add_new_contact"}

(* Stages that mutate the loaded list in place and dump it *)
InPlaceStages == {"contact_search_strict", "contact_search_loose"}

LoopStages == MergedStages \cup InPlaceStages

Req(stage, rec, resp, usable) ==
    [stage |-> stage, rec |-> rec, status |-> resp.status, usable |-> usable]
\* usable: the answer carried a result the stage acted on (a match it merged,
\* a usable company result, a person identifier)

(* An S3 object key: its prefix and the name after it *)
NoKey == [prefix |-> "none", name |-> "none"]

(* No S3 event is being handled *)
NoHandler ==
    /\ key = NoKey
    /\ tmp = {}
    /\ uploaded = {}
    /\ verdict = "none"

InitWith(d) ==
    /\ NoHandler
    /\ driver = d
    /\ env \in Environments
    /\ input_csv \in CsvFiles(env)
    /\ output_csv = <<>>
    /\ disk = csv_to_json(input_csv)
    /\ pc = "remove_spaces"
    /\ called = {}
    /\ old_data = <<>>
    /\ merged_data = <<>>
    /\ idx = 0
    /\ jwt_token = NoneToken
    /\ last_auth_time = 0
    /\ now = 0
    /\ check_time = -1
    /\ issued = 0
    /\ authFailed = FALSE
    /\ requests = {}
    /\ response = NoResponse
    /\ error = "none"
    /\ count = -1
    /\ calls = 0

Init == InitWith("main")

InitStages == InitWith("stages")

(* An uncaught exception: the process ends, its memory is gone, the file is
   as it was. *)
Raise(err) ==
    /\ pc' = "aborted"
    /\ error' = err
    /\ idx' = 0
    /\ old_data' = <<>>
    /\ merged_data' = <<>>
    /\ UNCHANGED <<env, key, tmp, uploaded, verdict, calls, input_csv, output_csv, disk, driver, called, count>>

(* The session and the clock after a token check *)
SessionStep(g) ==
    /\ check_time' = g.checked
    /\ jwt_token' = g.token
    /\ last_auth_time' = g.last
    /\ now' = g.now
    /\ issued' = g.issued
    /\ authFailed' = (authFailed \/ (g.attempted /\ g.failed))

(* jsonParser.remove_spaces: one pass, read and written back *)
remove_spaces ==
    /\ pc = "remove_spaces"
    /\ disk' = [i \in 1..Len(disk) |-> remove_spaces_record(disk[i])]
    /\ pc' = After(pc)
    /\ called' = called \cup {"remove_spaces"}
    /\ UNCHANGED <<env, key, tmp, uploaded, verdict, calls, input_csv, output_csv, driver, old_data, merged_data, idx, jwt_token, last_auth_time,
                   now, check_time, issued, authFailed, requests, response, error, count>>

(* main.py lines 83-84:
     jwt_token = auth.authenticate(username, password)
     last_auth_time = time.time() *)
main_authenticate ==
    /\ pc = "authenticate"
    /\ \E outcome \in AuthOutcomes, d \in DelaysFrom(now, AuthDelays) :
        LET a == authenticate(outcome, issued)
        IN /\ authFailed' = (outcome # "ok")
           /\ issued' = a.issued
           /\ requests' = requests
           /\ response' = response
           /\ check_time' = check_time
           /\ IF a.raised # "none"
              THEN /\ Raise(a.raised)
                   /\ UNCHANGED <<jwt_token, last_auth_time, now>>
              ELSE /\ jwt_token' = a.token
                   /\ now' = now + d
                   /\ last_auth_time' = now + d
                   /\ pc' = After(pc)
                   /\ UNCHANGED <<env, key, tmp, uploaded, verdict, calls, input_csv, output_csv, disk, driver, called, old_data, merged_data, idx,
                                  error, count>>

(* with open(input_filename, 'r') as file: old_data = json.load(file) *)
Open ==
    /\ pc \in LoopStages
    /\ idx = 0
    /\ old_data' = disk
    /\ merged_data' = <<>>
    /\ idx' = 1
    /\ response' = NoResponse
    /\ UNCHANGED <<env, key, tmp, uploaded, verdict, calls, input_csv, output_csv, disk, driver, pc, called, jwt_token, last_auth_time, now,
                   check_time, issued, authFailed, requests, error, count>>

(* with open(input_filename, 'w') as file: json.dump(...); return jwt_token, last_auth_time *)
Close ==
    /\ pc \in LoopStages
    /\ idx = Len(old_data) + 1
    /\ disk' = IF pc \in MergedStages THEN merged_data ELSE old_data
    /\ called' = called \cup {pc}
    /\ pc' = After(pc)
    /\ idx' = 0
    /\ old_data' = <<>>
    /\ merged_data' = <<>>
    /\ response' = NoResponse
    /\ UNCHANGED <<env, key, tmp, uploaded, verdict, calls, input_csv, output_csv, driver, jwt_token, last_auth_time, now, check_time, issued,
                   authFailed, requests, error, count>>

(* A loop body that puts the entry in front of merged_data *)
Append_entry_front(entry) ==
    /\ old_data' = [old_data EXCEPT ![idx] = entry]
    /\ merged_data' = <<entry>> \o merged_data
    /\ idx' = idx + 1
    /\ UNCHANGED <<env, key, tmp, uploaded, verdict, calls, input_csv, output_csv, disk, driver, pc, called, error, count>>

(* A loop body that also dumps merged_data to the file after each record *)
Append_entry_dump(entry) ==
    /\ old_data' = [old_data EXCEPT ![idx] = entry]
    /\ merged_data' = Append(merged_data, entry)
    /\ disk' = Append(merged_data, entry)
    /\ idx' = idx + 1
    /\ UNCHANGED <<env, key, tmp, uploaded, verdict, calls, input_csv, output_csv, driver, pc, called, error, count>>

(* The end of a loop body of a merged stage: merged_data.append(entry) *)
Append_entry(entry) ==
    /\ old_data' = [old_data EXCEPT ![idx] = entry]
    /\ merged_data' = Append(merged_data, entry)
    /\ idx' = idx + 1
    /\ UNCHANGED <<env, key, tmp, uploaded, verdict, calls, input_csv, output_csv, disk, driver, pc, called, error, count>>

(* One loop body: the token check, then `body` on the entry with the checked
   token.  body(entry, resp) gives [entry, raised, sent, usable]. *)
LoopBody(stage, responses, body(_, _)) ==
    /\ idx \in 1..Len(old_data)
    /\ \E d1 \in DelaysFrom(now, Delays), outcome \in AuthOutcomes, resp \in Answers(responses) :
        \E d2 \in DelaysFrom(now + d1, AuthDelays) :
            LET g == TokenCheck(jwt_token, last_auth_time, issued, now + d1, outcome,
                                now + d1 + d2)
                r == body(old_data[idx], resp)
            IN /\ (g.attempted \/ (outcome = "ok" /\ d2 = 0))
               /\ SessionStep(g)
               /\ response' = IF g.raised = "none" /\ r.sent THEN resp ELSE NoResponse
               /\ IF g.raised # "none"
                  THEN Raise(g.raised) /\ requests' = requests
                  ELSE /\ requests' = IF r.sent
                                      THEN requests \cup {Req(stage, idx, resp, r.usable)}
                                      ELSE requests
                       /\ IF r.raised # "none"
                          THEN Raise(r.raised)
                          ELSE IF stage \in MergedStages
                               THEN Append_entry(r.entry)
                               ELSE /\ old_data' = [old_data EXCEPT ![idx] = r.entry]
                                    /\ idx' = idx + 1
                                    /\ UNCHANGED <<env, key, tmp, uploaded, verdict, calls, input_csv, output_csv, disk, driver, pc, called, error,
                                                   count, merged_data>>

(* A loop body that merges the first result whatever its match status *)
contact_enrich_body_any(entry, resp) ==
    LET got == get_contact_enrichment_data(entry, resp)
        done(e, x, m) == [entry |-> e, raised |-> x, sent |-> TRUE, usable |-> m]
    IN IF got.isNone THEN done(got.entry, "AttributeError", FALSE)
       ELSE IF ~resp.success THEN done(got.entry, "none", FALSE)
       ELSE IF ~resp.hasData THEN done(got.entry, "KeyError", FALSE)
       ELSE IF Len(resp.result) = 0 THEN done(got.entry, "IndexError", FALSE)
       ELSE LET u == update_contact_data(got.entry, resp.result[1])
            IN done(u.entry, u.raised, TRUE)

(* contactEnrich.contact_enrich, lines 112-116 *)
contact_enrich_body(entry, resp) ==
    LET got == get_contact_enrichment_data(entry, resp)
        done(e, x, m) == [entry |-> e, raised |-> x, sent |-> TRUE, usable |-> m]
    IN IF got.isNone THEN done(got.entry, "AttributeError", FALSE)
       ELSE IF ~resp.success THEN done(got.entry, "none", FALSE)
       ELSE IF ~resp.hasData THEN done(got.entry, "KeyError", FALSE)
       ELSE IF Len(resp.result) = 0 THEN done(got.entry, "IndexError", FALSE)
       ELSE IF resp.result[1].matchStatus \in {"CONTACT_ONLY_MATCH", "FULL_MATCH"}
            THEN LET u == update_contact_data(got.entry, resp.result[1])
                 IN done(u.entry, u.raised, TRUE)
            ELSE done(got.entry, "none", FALSE)

contact_enrich ==
    /\ pc = "contact_enrich"
    /\ LoopBody("contact_enrich", ContactResponses, contact_enrich_body)

(* companyEnrich.company_enrich, lines 125-128 *)
company_enrich_body(entry, resp) ==
    LET got == get_company_enrichment_data(entry, resp)
        done(e, x) == [entry |-> e, raised |-> x, sent |-> TRUE, usable |-> Usable(resp)]
    IN IF ~got.isNone /\ resp.success
       THEN LET u == update_company_data(got.entry, resp)
            IN done(u.entry, u.raised)
       ELSE done(got.entry, "none")

company_enrich ==
    /\ pc = "company_enrich"
    /\ LoopBody("company_enrich", CompanyResponses, company_enrich_body)

(* companyEnrich.company_enrich_loose, lines 251-254 *)
company_enrich_loose_body(entry, resp) ==
    LET got == get_company_enrichment_data_loose(entry, resp)
        done(e, x) == [entry |-> e, raised |-> x, sent |-> TRUE, usable |-> Usable(resp)]
    IN IF ~got.isNone /\ resp.success
       THEN LET u == update_company_data_loose(got.entry, resp)
            IN done(u.entry, u.raised)
       ELSE done(got.entry, "none")

company_enrich_loose ==
    /\ pc = "company_enrich_loose"
    /\ LoopBody("company_enrich_loose", CompanyResponses, company_enrich_loose_body)

(* A flag raised as soon as one of the four fields is empty *)
NeedsContactValue_any(record) ==
    IF record["firstName"] = "" \/ record["lastName"] = ""
       \/ record["emailAddress"] = "" \/ record["phone"] = ""
    THEN "Yes" ELSE "No"

(* jsonParser.updateNeedsContact on one record *)
NeedsContactValue(record) ==
    IF record["firstName"] = "" /\ record["lastName"] = ""
       /\ record["emailAddress"] = "" /\ record["phone"] = ""
    THEN "Yes" ELSE "No"

(* jsonParser.updateNeedsContact: one pass, read and written back; returns count *)
updateNeedsContact ==
    /\ pc = "updateNeedsContact"
    /\ disk' = [i \in 1..Len(disk) |-> Put(disk[i], "needsContact", NeedsContactValue(disk[i]))]
    /\ count' = Cardinality({i \in 1..Len(disk) : NeedsContactValue(disk[i]) = "Yes"})
    /\ called' = called \cup {"updateNeedsContact"}
    /\ pc' = After(pc)
    /\ UNCHANGED <<env, key, tmp, uploaded, verdict, calls, input_csv, output_csv, driver, old_data, merged_data, idx, jwt_token, last_auth_time,
                   now, check_time, issued, authFailed, requests, response, error>>

(* A search that sends its request whether the record has a company
   identifier or not *)
get_contact_person_id_strict_unchecked(entry, resp) ==
    IF resp.status # 200
    THEN [entry |-> MarkFailed(entry, resp), person_id |-> "None", sent |-> TRUE]
    ELSE IF Len(resp.result) > 0 /\ Truthy(Get(resp.result[1], "id", ""))
    THEN [entry |-> entry, person_id |-> resp.result[1]["id"], sent |-> TRUE]
    ELSE [entry |-> entry, person_id |-> "None", sent |-> TRUE]

(* A search that returns the first result's id whenever the result has one,
   the empty identifier included *)
get_contact_person_id_strict_any(entry, resp) ==
    IF ~Truthy(Get(entry, "zi_c_company_id", ""))
    THEN [entry |-> entry, person_id |-> "None", sent |-> FALSE]
    ELSE IF resp.status # 200
    THEN [entry |-> MarkFailed(entry, resp), person_id |-> "None", sent |-> TRUE]
    ELSE IF Len(resp.result) > 0 /\ Has(resp.result[1], "id")
    THEN [entry |-> entry, person_id |-> resp.result[1]["id"], sent |-> TRUE]
    ELSE [entry |-> entry, person_id |-> "None", sent |-> TRUE]

(* contactSearch.get_contact_person_id_strict: [entry, person_id, sent];
   person_id "None" stands for Python None *)
get_contact_person_id_strict(entry, resp) ==
    IF ~Truthy(Get(entry, "zi_c_company_id", ""))
    THEN [entry |-> entry, person_id |-> "None", sent |-> FALSE]
    ELSE IF resp.status # 200
    THEN [entry |-> MarkFailed(entry, resp), person_id |-> "None", sent |-> TRUE]
    ELSE IF Len(resp.result) > 0 /\ Truthy(Get(resp.result[1], "id", ""))
    THEN [entry |-> entry, person_id |-> resp.result[1]["id"], sent |-> TRUE]
    ELSE [entry |-> entry, person_id |-> "None", sent |-> TRUE]

(* contactSearch.get_contact_person_id_loose *)
get_contact_person_id_loose(entry, resp) ==
    IF ~Truthy(Get(entry, "zi_c_company_id", ""))
    THEN [entry |-> entry, person_id |-> "None", sent |-> FALSE]
    ELSE IF resp.status # 200
    THEN [entry |-> MarkFailed(entry, resp), person_id |-> "None", sent |-> TRUE]
    ELSE IF Len(resp.result) > 0 /\ Truthy(Get(resp.result[1], "id", ""))
    THEN [entry |-> entry, person_id |-> resp.result[1]["id"], sent |-> TRUE]
    ELSE [entry |-> entry, person_id |-> "None", sent |-> TRUE]

(* A strict pass that searches for every record that has a company
   identifier key, whether it needs a contact or not *)
contact_search_strict_body_all(entry, resp) ==
    IF Has(entry, "zi_c_company_id")
    THEN LET got == get_contact_person_id_strict(entry, resp)
             e == IF got.person_id # "None"
                  THEN Put(Put(Put(got.entry, "personId", got.person_id),
                               "newContactFound", "Yes"), "contactMeetsCriteria", "Yes")
                  ELSE Put(got.entry, "newContactFound", "No")
         IN [entry |-> e, raised |-> "none", sent |-> got.sent, usable |-> got.person_id # "None"]
    ELSE [entry |-> entry, raised |-> "none", sent |-> FALSE, usable |-> FALSE]

(* contactSearch.contact_search_strict, lines 138-146 *)
contact_search_strict_body(entry, resp) ==
    IF Get(entry, "needsContact", "None") = "Yes" /\ Has(entry, "zi_c_company_id")
    THEN LET got == get_contact_person_id_strict(entry, resp)
             e == IF got.person_id # "None"
                  THEN Put(Put(Put(got.entry, "personId", got.person_id),
                               "newContactFound", "Yes"), "contactMeetsCriteria", "Yes")
                  ELSE Put(got.entry, "newContactFound", "No")
         IN [entry |-> e, raised |-> "none", sent |-> got.sent, usable |-> got.person_id # "None"]
    ELSE [entry |-> entry, raised |-> "none", sent |-> FALSE, usable |-> FALSE]

contact_search_strict ==
    /\ pc = "contact_search_strict"
    /\ LoopBody("contact_search_strict", SearchResponses, contact_search_strict_body)

(* A loose pass that searches for every record that needs a contact, found
   or not *)
contact_search_loose_body_ungated(entry, resp) ==
    IF Get(entry, "needsContact", "None") = "Yes"
       /\ Has(entry, "zi_c_company_id")
    THEN LET got == get_contact_person_id_loose(entry, resp)
             e == IF got.person_id # "None"
                  THEN Put(Put(Put(got.entry, "personId", got.person_id),
                               "newContactFound", "Yes"), "contactMeetsCriteria", "No")
                  ELSE Put(got.entry, "newContactFound", "No")
         IN [entry |-> e, raised |-> "none", sent |-> got.sent, usable |-> got.person_id # "None"]
    ELSE [entry |-> entry, raised |-> "none", sent |-> FALSE, usable |-> FALSE]

(* contactSearch.contact_search_loose, lines 180-188 *)
contact_search_loose_body(entry, resp) ==
    IF Get(entry, "needsContact", "None") = "Yes"
       /\ Get(entry, "newContactFound", "None") = "No"
       /\ Has(entry, "zi_c_company_id")
    THEN LET got == get_contact_person_id_loose(entry, resp)
             e == IF got.person_id # "None"
                  THEN Put(Put(Put(got.entry, "personId", got.person_id),
                               "newContactFound", "Yes"), "contactMeetsCriteria", "No")
                  ELSE Put(got.entry, "newContactFound", "No")
         IN [entry |-> e, raised |-> "none", sent |-> got.sent, usable |-> got.person_id # "None"]
    ELSE [entry |-> entry, raised |-> "none", sent |-> FALSE, usable |-> FALSE]

contact_search_loose ==
    /\ pc = "contact_search_loose"
    /\ LoopBody("contact_search_loose", SearchResponses, contact_search_loose_body)

(* addNewContact.get_new_contact_data *)
get_new_contact_data(entry, resp) ==
    IF resp.status # 200
    THEN [entry |-> MarkFailed(entry, resp), isNone |-> TRUE]
    ELSE [entry |-> entry, isNone |-> FALSE]

(* addNewContact.update_new_contact_data *)
update_new_contact_data(entry, new_data_item) ==
    IF ~Has(new_data_item, "data") THEN [entry |-> entry, raised |-> "KeyError"]
    ELSE IF Len(new_data_item.data) = 0
    THEN [entry |-> entry, raised |-> "IndexError"]
    ELSE LET person_data == new_data_item.data[1]
             s0 == [entry |-> entry, raised |-> "none"]
             s1 == FillPerson(s0, "firstName", person_data, "firstName")
             s2 == FillPerson(s1, "lastName", person_data, "lastName")
             s3 == FillPerson(s2, "emailAddress", person_data, "email")
             s4 == FillPerson(s3, "phone", person_data, "phone")
         IN FillPerson(s4, "jobTitle", person_data, "jobTitle")

(* addNewContact.add_new_contact, lines 104-118: the try block; an IndexError
   is caught and the entry is appended as it then is *)
add_new_contact_body(entry, resp) ==
    IF Get(entry, "needsContact", "None") = "Yes" /\ Truthy(Get(entry, "personId", ""))
    THEN LET got == get_new_contact_data(entry, resp)
             done(e, x, m) == [entry |-> e, raised |-> IF x = "IndexError" THEN "none" ELSE x,
                               sent |-> TRUE, usable |-> m]
         IN IF got.isNone \/ ~resp.success THEN done(got.entry, "none", FALSE)
            ELSE IF ~resp.hasData THEN done(got.entry, "KeyError", FALSE)
            ELSE IF Len(resp.result) = 0 THEN done(got.entry, "IndexError", FALSE)
            ELSE LET u == update_new_contact_data(got.entry, resp.result[1])
                 IN done(u.entry, u.raised, TRUE)
    ELSE [entry |-> entry, raised |-> "none", sent |-> FALSE, usable |-> FALSE]

add_new_contact ==
    /\ pc = "add_new_contact"
    /\ LoopBody("add_new_contact", ContactResponses, add_new_contact_body)

(* A backfill that fills each empty address field on its own *)
update_address_entry_each(entry) ==
    LET fill(e, k, z) == IF ~Truthy(Get(e, k, "")) THEN Put(e, k, Get(entry, z, "")) ELSE e
    IN fill(fill(fill(fill(entry,
             "companyStreet", "zi_c_street"),
             "companyCity", "zi_c_city"),
             "companyState", "zi_c_state"),
             "companyZipCode", "zi_c_zip")

(* jsonParser.update_address on one entry *)
update_address_entry(entry) ==
    IF ~Truthy(Get(entry, "companyStreet", "")) /\ ~Truthy(Get(entry, "companyCity", ""))
       /\ ~Truthy(Get(entry, "companyState", "")) /\ ~Truthy(Get(entry, "companyZipCode", ""))
    THEN Put(Put(Put(Put(entry,
             "companyStreet", Get(entry, "zi_c_street", "")),
             "companyCity", Get(entry, "zi_c_city", "")),
             "companyState", Get(entry, "zi_c_state", "")),
             "companyZipCode", Get(entry, "zi_c_zip", ""))
    ELSE entry

(* jsonParser.update_address: one pass, read and written back *)
update_address ==
    /\ pc = "update_address"
    /\ disk' = [i \in 1..Len(disk) |-> update_address_entry(disk[i])]
    /\ called' = called \cup {"update_address"}
    /\ pc' = After(pc)
    /\ UNCHANGED <<env, key, tmp, uploaded, verdict, calls, input_csv, output_csv, driver, old_data, merged_data, idx, jwt_token, last_auth_time,
                   now, check_time, issued, authFailed, requests, response, error, count>>

(* The address fields update_address fills, and the provider fields it
   fills them from *)
AddressKeys == <<"companyStreet", "companyCity", "companyState", "companyZipCode">>

ZiAddressKeys == <<"zi_c_street", "zi_c_city", "zi_c_state", "zi_c_zip">>

(* The files update_address is called on by itself: one record, each address
   field empty or not, each provider address field empty or not *)
AddressFiles ==
    LET base == MapRow(Row(TemplateHeaders,
                           [contact |-> ContactHeaders, address |-> TRUE, pad |-> FALSE], 1))
    IN { << [k \in DOMAIN base |->
               IF \E j \in 1..4 : AddressKeys[j] = k
               THEN a[CHOOSE j \in 1..4 : AddressKeys[j] = k]
               ELSE IF \E j \in 1..4 : ZiAddressKeys[j] = k
               THEN z[CHOOSE j \in 1..4 : ZiAddressKeys[j] = k]
               ELSE base[k]] >> :
           a \in [1..4 -> {"", "orig"}], z \in [1..4 -> {"", "ziA"}] }

(* jsonParser.update_address called on a file of its own *)
InitAddress ==
    /\ NoHandler
    /\ driver = "address"
    /\ env = "rich"
    /\ input_csv = <<>>
    /\ output_csv = <<>>
    /\ disk \in AddressFiles
    /\ pc = "update_address"
    /\ called = {}
    /\ old_data = <<>>
    /\ merged_data = <<>>
    /\ idx = 0
    /\ jwt_token = NoneToken
    /\ last_auth_time = 0
    /\ now = 0
    /\ check_time = -1
    /\ issued = 0
    /\ authFailed = FALSE
    /\ requests = {}
    /\ response = NoResponse
    /\ error = "none"
    /\ count = -1
    /\ calls = 0

Next_address == update_address

SpecAddress == InitAddress /\ [][Next_address]_vars

(* main.py line 99: contactSearch.contact_search is not a function of the
   contactSearch module; the attribute lookup raises AttributeError. *)
main_contact_search ==
    /\ pc = "contact_search"
    /\ Raise("AttributeError")
    /\ UNCHANGED <<jwt_token, last_auth_time, now, check_time, issued, authFailed, requests,
                   response>>

Next ==
    \/ remove_spaces
    \/ main_authenticate
    \/ Open
    \/ contact_enrich
    \/ company_enrich
    \/ company_enrich_loose
    \/ Close
    \/ updateNeedsContact
    \/ main_contact_search

Spec == Init /\ [][Next]_vars

(* The stage functions called one by one in pipeline order *)
NextStages ==
    \/ remove_spaces
    \/ main_authenticate
    \/ Open
    \/ contact_enrich
    \/ company_enrich
    \/ company_enrich_loose
    \/ Close
    \/ updateNeedsContact
    \/ contact_search_strict
    \/ contact_search_loose
    \/ add_new_contact
    \/ update_address

SpecStages == InitStages /\ [][NextStages]_vars

----------------------------------------------------------------------------
(* fileConvert.json_to_csv and the conversions of EnrichmentProcessor *)

(* csv_mapping of fileConvert.json_to_csv: record key -> CSV header *)
csv_mapping ==
    [k \in {"companyName", "companyStreet", "companyCity", "companyState",
            "companyZipCode", "companyCountry", "firstName", "lastName",
            "emailAddress", "phone", "siteName", "siteID", "additionalContactInfo",
            "zi_c_name", "zi_c_company_id", "zi_c_company_name", "zi_c_phone",
            "zi_c_url", "zi_c_naics6", "sectorTitle", "primaryIndustry",
            "zi_c_employees", "zi_c_street", "zi_c_city", "zi_c_state", "zi_c_zip",
            "zi_c_country", "zi_c_location_id", "needsContact", "newContactFound",
            "personId", "contactMatchCriteria", "company_match_criteria",
            "enrichmentStatus", "errorMessage"} |->
        CASE k = "companyName" -> "Supplier Company"
          [] k = "companyStreet" -> "Supplier Street"
          [] k = "companyCity" -> "Supplier City"
          [] k = "companyState" -> "Supplier State"
          [] k = "companyZipCode" -> "Supplier Zip Code"
          [] k = "companyCountry" -> "Supplier Country"
          [] k = "firstName" -> "Supplier First Name"
          [] k = "lastName" -> "Supplier Last Name"
          [] k = "emailAddress" -> "Supplier Email"
          [] k = "phone" -> "Supplier Phone"
          [] k = "siteName" -> "Site Name"
          [] k = "siteID" -> "Site ID"
          [] k = "additionalContactInfo" -> "Additional Contact Info"
          [] k = "zi_c_name" -> "Zoominfo Company Name"
          [] k = "zi_c_company_id" -> "Zoominfo Company ID"
          [] k = "zi_c_company_name" -> "Company HQ Name"
          [] k = "zi_c_phone" -> "Company Phone"
          [] k = "zi_c_url" -> "Website"
          [] k = "zi_c_naics6" -> "6-digit NAICS Code"
          [] k = "sectorTitle" -> "Sector Title"
          [] k = "primaryIndustry" -> "Primary Industry"
          [] k = "zi_c_employees" -> "Number of Employees"
          [] k = "zi_c_street" -> "Company Street"
          [] k = "zi_c_city" -> "Company City"
          [] k = "zi_c_state" -> "Company State"
          [] k = "zi_c_zip" -> "Company Zip Code"
          [] k = "zi_c_country" -> "Company Country"
          [] k = "zi_c_location_id" -> "Company Location ID"
          [] k = "needsContact" -> "Needs New Contact"
          [] k = "newContactFound" -> "New Contact Found"
          [] k = "personId" -> "Contact Person ID"
          [] k = "contactMatchCriteria" -> "Contact Match Criteria"
          [] k = "company_match_criteria" -> "Company Match Criteria"
          [] k = "enrichmentStatus" -> "Enrichment Status"
          [] k = "errorMessage" -> "Error Message"]

(* csv_mapping of EnrichmentProcessor._json_to_csv: the same table with the
   LinkedIn URL and the job title *)
lambda_csv_mapping ==
    [k \in DOMAIN csv_mapping \cup {"zi_c_linkedin_url", "jobTitle"} |->
        CASE k = "zi_c_linkedin_url" -> "Company LinkedIn URL"
          [] k = "jobTitle" -> "Contact Job Title"
          [] OTHER -> csv_mapping[k]]

(* The rows csv.DictWriter writes: the headers are those of every key of every
   entry, a row has '' under the headers its entry has no key for *)
WriteRows(mapping, data) ==
    LET all_keys == UNION {DOMAIN data[i] : i \in 1..Len(data)}
        headers == {Get(mapping, k, k) : k \in all_keys}
    IN [i \in 1..Len(data) |->
          [h \in headers |->
              LET ks == {k \in DOMAIN data[i] : Get(mapping, k, k) = h}
              IN IF ks = {} THEN "" ELSE data[i][CHOOSE k \in ks : TRUE]]]

(* fileConvert.json_to_csv *)
json_to_csv(data) == WriteRows(csv_mapping, data)

(* EnrichmentProcessor._json_to_csv *)
_json_to_csv(data) == WriteRows(lambda_csv_mapping, data)

(* value.strip() on the model's values *)
strip(v) ==
    CASE v = " orig " -> "orig"
      [] v = " " -> ""
      [] OTHER -> v

(* new_json_values of EnrichmentProcessor._csv_to_json *)
lambda_new_json_values ==
    [k \in DOMAIN new_json_values \cup {"jobTitle", "zi_c_linkedin_url"} |->
        IF k = "enrichmentStatus" THEN "Success" ELSE ""]

(* A row conversion that keeps the values as read *)
lambda_MapRow_raw(row) ==
    LET keys == {Get(header_mapping, h, h) : h \in DOMAIN row}
        mapped_row == [k \in keys |->
            row[CHOOSE h \in DOMAIN row : Get(header_mapping, h, h) = k]]
    IN Update(mapped_row, lambda_new_json_values)

(* One CSV row to one record, in EnrichmentProcessor._csv_to_json *)
lambda_MapRow(row) ==
    LET keys == {Get(header_mapping, h, h) : h \in DOMAIN row}
        mapped_row == [k \in keys |->
            strip(row[CHOOSE h \in DOMAIN row : Get(header_mapping, h, h) = k])]
    IN Update(mapped_row, lambda_new_json_values)

(* EnrichmentProcessor._csv_to_json *)
_csv_to_json(rows) == [i \in 1..Len(rows) |-> lambda_MapRow(rows[i])]

----------------------------------------------------------------------------
(* lambda_auth and the methods of EnrichmentProcessor *)

(* self.last_auth_time = None *)
NoneTime == -1

(* lambda_auth.get_valid_token: the jwt on 200; AuthError on a non-200 answer
   and when the endpoint is unreachable *)
get_valid_token(outcome, n) ==
    [raised |-> IF outcome = "ok" THEN "none" ELSE "AuthError",
     token  |-> IF outcome = "ok" THEN n + 1 ELSE NoneToken,
     issued |-> IF outcome = "ok" THEN n + 1 ELSE n]

(* not self.jwt_token or not self.last_auth_time or
   (current_time - self.last_auth_time) > (55 * 60) *)
NeedsRefresh(tok, last, current_time) ==
    \/ tok = NoneToken
    \/ last = NoneTime
    \/ last = 0
    \/ current_time - last > TokenLifetime

(* EnrichmentProcessor._check_token at clock reading current_time *)
_check_token(tok, last, n, current_time, outcome) ==
    IF NeedsRefresh(tok, last, current_time)
    THEN LET a == get_valid_token(outcome, n)
         IN [raised |-> a.raised, attempted |-> TRUE, checked |-> current_time,
             failed |-> outcome # "ok",
             token  |-> IF a.raised = "none" THEN a.token ELSE tok,
             last   |-> IF a.raised = "none" THEN current_time ELSE last,
             issued |-> a.issued,
             now    |-> current_time]
    ELSE [raised |-> "none", attempted |-> FALSE, failed |-> FALSE,
          checked |-> current_time, token |-> tok, last |-> last, issued |-> n,
          now |-> current_time]

(* requests.post raised (no answer came back) *)
Unreachable == [status |-> 0, text |-> "ConnectionError", success |-> FALSE,
                hasData |-> FALSE, result |-> <<>>]

(* An empty dict *)
EmptyDict == [k \in {} |-> ""]

(* Answers to EnrichmentProcessor._enrich_contact; result[0].data is a dict *)
LambdaContactResponses ==
    { Http500, Unreachable, NotSuccess,
      Ok(<<>>),
      Ok(<< [matchStatus |-> "NO_MATCH", data |-> EmptyDict] >>),
      Ok(<< [matchStatus |-> "FULL_MATCH", data |-> EmptyDict] >>),
      Ok(<< [matchStatus |-> "FULL_MATCH", data |-> PersonFull] >>),
      Ok(<< [matchStatus |-> "CONTACT_ONLY_MATCH", data |-> PersonFull] >>),
      Ok(<< [matchStatus |-> "FULL_MATCH", data |-> PersonNoPhone] >>) }

(* Answers to EnrichmentProcessor._enrich_company *)
LambdaCompanyResponses ==
    { Http500, Unreachable, NotSuccess,
      Ok(<<>>),
      Ok(<< [data |-> EmptyDict] >>),
      Ok(<< [data |-> CompanyFull("ziA")] >>),
      Ok(<< [data |-> CompanyPartial("ziB")] >>) }

(* The answers to EnrichmentProcessor of the "plain" environment *)
LambdaPlainResponses ==
    { Http500, NotSuccess,
      Ok(<< [matchStatus |-> "FULL_MATCH", data |-> PersonFull] >>),
      Ok(<< [data |-> CompanyFull("ziA")] >>) }

LambdaAnswers(responses) ==
    CASE env = "rich" -> responses
      [] env = "plain" -> responses \cap LambdaPlainResponses
      [] env = "clock" -> responses \cap ClockResponses

(* f"API Error: {response.status_code}" *)
ApiError(resp) == IF resp.status = 500 THEN "API Error: 500" ELSE "API Error"

(* response_data.get("success") and response_data.get("data", {}).get("result") *)
HasResult(resp) == resp.success /\ resp.hasData /\ Len(resp.result) > 0

(* An _enrich_contact that also records the error body, as the desktop
   stages do *)
_enrich_contact_marking(entry, g, resp) ==
    IF g.raised # "none" THEN Put(entry, "enrichmentStatus", "Error: AuthError")
    ELSE IF resp.status # 200
    THEN Put(Put(entry, "enrichmentStatus", "Failed"), "errorMessage", resp.text)
    ELSE IF ~HasResult(resp) THEN Put(entry, "enrichmentStatus", "No Data Available")
    ELSE LET result == resp.result[1]
         IN IF Get(result, "matchStatus", "None") = "FULL_MATCH"
               /\ Has(result, "data") /\ DOMAIN result["data"] # {}
            THEN LET contact_data == result["data"]
                 IN Update(entry,
                      [firstName |-> Get(contact_data, "firstName", Get(entry, "firstName", "")),
                       lastName |-> Get(contact_data, "lastName", Get(entry, "lastName", "")),
                       emailAddress |-> Get(contact_data, "email", Get(entry, "emailAddress", "")),
                       phone |-> Get(contact_data, "phone", Get(entry, "phone", "")),
                       jobTitle |-> Get(contact_data, "jobTitle", ""),
                       enrichmentStatus |-> "Success"])
            ELSE Put(entry, "enrichmentStatus", "No Match Found")

(* EnrichmentProcessor._enrich_contact after its _check_token returned g:
   the entry it returns *)
_enrich_contact(entry, g, resp) ==
    IF g.raised # "none" THEN Put(entry, "enrichmentStatus", "Error: AuthError")
    ELSE IF resp = Unreachable THEN Put(entry, "enrichmentStatus", "Error: ConnectionError")
    ELSE IF resp.status # 200 THEN Put(entry, "enrichmentStatus", ApiError(resp))
    ELSE IF ~HasResult(resp) THEN Put(entry, "enrichmentStatus", "No Data Available")
    ELSE LET result == resp.result[1]
         IN IF Get(result, "matchStatus", "None") = "FULL_MATCH"
               /\ Has(result, "data") /\ DOMAIN result["data"] # {}
            THEN LET contact_data == result["data"]
                 IN Update(entry,
                      [firstName |-> Get(contact_data, "firstName", Get(entry, "firstName", "")),
                       lastName |-> Get(contact_data, "lastName", Get(entry, "lastName", "")),
                       emailAddress |-> Get(contact_data, "email", Get(entry, "emailAddress", "")),
                       phone |-> Get(contact_data, "phone", Get(entry, "phone", "")),
                       jobTitle |-> Get(contact_data, "jobTitle", ""),
                       enrichmentStatus |-> "Success"])
            ELSE Put(entry, "enrichmentStatus", "No Match Found")

(* EnrichmentProcessor._enrich_company after its _check_token returned g *)
_enrich_company(entry, g, resp) ==
    IF g.raised # "none" THEN Put(entry, "enrichmentStatus", "Error: AuthError")
    ELSE IF resp = Unreachable THEN Put(entry, "enrichmentStatus", "Error: ConnectionError")
    ELSE IF resp.status # 200 THEN Put(entry, "enrichmentStatus", ApiError(resp))
    ELSE IF ~HasResult(resp) THEN Put(entry, "enrichmentStatus", "No Match Found")
    ELSE LET result == resp.result[1]
         IN IF Has(result, "data") /\ DOMAIN result["data"] # {}
            THEN LET company_data == result["data"]
                 IN Update(entry,
                      [zi_c_name |-> Get(company_data, "zi_c_name", ""),
                       zi_c_company_id |-> Get(company_data, "zi_c_company_id", ""),
                       zi_c_url |-> Get(company_data, "zi_c_url", ""),
                       zi_c_linkedin_url |-> Get(company_data, "zi_c_linkedin_url", ""),
                       zi_c_naics6 |-> Get(company_data, "zi_c_naics6", ""),
                       zi_c_employees |-> Get(company_data, "zi_c_employees", ""),
                       enrichmentStatus |-> "Success"])
            ELSE Put(entry, "enrichmentStatus", "No Data Available")

(* EnrichmentProcessor._update_needs_contact *)
_update_needs_contact(entry) ==
    LET has_contact == /\ strip(Get(entry, "firstName", "")) # ""
                       /\ strip(Get(entry, "lastName", "")) # ""
                       /\ strip(Get(entry, "emailAddress", "")) # ""
                       /\ strip(Get(entry, "phone", "")) # ""
    IN Put(entry, "needsContact", IF has_contact THEN "No" ELSE "Yes")

----------------------------------------------------------------------------
(* EnrichmentProcessor.process, the methods called one by one, and the
   conversions called back to back *)

(* The clock reading when a processor is constructed *)
StartTime == 1

(* EnrichmentProcessor.__init__ on an input CSV, with driver d about to run
   the call at p *)
InitProcessor(d, p) ==
    /\ driver = d
    /\ env \in Environments
    /\ input_csv \in CsvFiles(env)
    /\ output_csv = <<>>
    /\ disk = <<>>
    /\ pc = p
    /\ called = {}
    /\ old_data = <<>>
    /\ merged_data = <<>>
    /\ idx = 0
    /\ jwt_token = NoneToken
    /\ last_auth_time = NoneTime
    /\ now = StartTime
    /\ check_time = -1
    /\ issued = 0
    /\ authFailed = FALSE
    /\ requests = {}
    /\ response = NoResponse
    /\ error = "none"
    /\ count = -1
    /\ calls = 0

InitProcess == NoHandler /\ InitProcessor("process", "get_valid_token")

InitMethods == NoHandler /\ InitProcessor("methods", "_csv_to_json")

InitMapping ==
    /\ NoHandler
    /\ \/ InitProcessor("mapping", "csv_to_json")
       \/ InitProcessor("mapping", "_csv_to_json")

(* process(), line 37: self.jwt_token = lambda_auth.get_valid_token();
   self.last_auth_time is not assigned *)
process_get_valid_token ==
    /\ pc = "get_valid_token"
    /\ \E outcome \in AuthOutcomes :
        LET a == get_valid_token(outcome, issued)
        IN /\ authFailed' = (outcome # "ok")
           /\ issued' = a.issued
           /\ UNCHANGED <<last_auth_time, now, check_time, requests, response>>
           /\ IF a.raised # "none"
              THEN Raise(a.raised) /\ UNCHANGED jwt_token
              ELSE /\ jwt_token' = a.token
                   /\ pc' = "_csv_to_json"
                   /\ UNCHANGED <<env, key, tmp, uploaded, verdict, calls, input_csv, output_csv, disk, driver, called, old_data,
                                  merged_data, idx, error, count>>

(* self._csv_to_json(): self.data is filled from the input file *)
processor_csv_to_json ==
    /\ pc = "_csv_to_json"
    /\ old_data' = _csv_to_json(input_csv)
    /\ pc' = CASE driver \in {"process", "handler"} ->
                    IF Len(input_csv) = 0 THEN "_json_to_csv" ELSE "_enrich_data"
               [] driver = "methods" -> "methods"
               [] OTHER -> "_json_to_csv"
    /\ idx' = IF driver \in {"process", "handler"} /\ Len(input_csv) > 0 THEN 1 ELSE 0
    /\ called' = called \cup {"_csv_to_json"}
    /\ UNCHANGED <<env, key, tmp, uploaded, verdict, calls, input_csv, output_csv, disk, driver, merged_data, jwt_token,
                   last_auth_time, now, check_time, issued, authFailed, requests,
                   response, error, count>>

(* filename.replace('.csv', '_enhanced.csv') on the model's names *)
output_filename(filename) ==
    CASE filename = "data.csv" -> "data_enhanced.csv"
      [] filename = "data_enhanced.csv" -> "data_enhanced_enhanced.csv"
      [] OTHER -> filename

(* self._json_to_csv(): the output file is written from self.data, at
   output_path *)
processor_json_to_csv ==
    /\ pc = "_json_to_csv"
    /\ output_csv' = _json_to_csv(old_data)
    /\ tmp' = IF driver = "handler" THEN tmp \cup {output_filename(key.name)} ELSE tmp
    /\ pc' = "done"
    /\ called' = called \cup {"_json_to_csv"}
    /\ UNCHANGED <<env, key, uploaded, verdict, calls, input_csv, disk, driver, old_data, merged_data, idx, jwt_token,
                   last_auth_time, now, check_time, issued, authFailed, requests,
                   response, error, count>>

(* The request of _enrich_contact / _enrich_company as logged: sent unless
   the method's _check_token raised *)
Sent(g, method, i, resp) ==
    IF g.raised = "none"
    THEN {Req(method, i, resp, resp.status = 200 /\ HasResult(resp))}
    ELSE {}

(* _enrich_data, lines 261-270: one iteration of `for entry in self.data` *)
enrich_data_entry ==
    /\ pc = "_enrich_data"
    /\ idx \in 1..Len(old_data)
    /\ \E d1 \in DelaysFrom(now, Delays), o1 \in AuthOutcomes :
        LET g1 == _check_token(jwt_token, last_auth_time, issued, now + d1, o1)
        IN /\ (g1.attempted \/ o1 = "ok")
           /\ IF g1.raised # "none"
              THEN /\ SessionStep(g1)
                   /\ Raise(g1.raised)
                   /\ UNCHANGED <<requests, response>>
              ELSE \E d2 \in DelaysFrom(now + d1, Delays), o2 \in AuthOutcomes,
                      r2 \in LambdaAnswers(LambdaCompanyResponses) :
                    LET g2 == _check_token(g1.token, g1.last, g1.issued, now + d1 + d2, o2)
                        e2 == _enrich_company(old_data[idx], g2, r2)
                    IN /\ (g2.attempted \/ o2 = "ok")
                       /\ IF e2["needsContact"] = "Yes"
                          THEN \E o3 \in AuthOutcomes, r3 \in LambdaAnswers(LambdaContactResponses) :
                                LET g3 == _check_token(g2.token, g2.last, g2.issued, g2.now, o3)
                                    e3 == _enrich_contact(e2, g3, r3)
                                IN /\ (g3.attempted \/ o3 = "ok")
                                   /\ SessionStep([g3 EXCEPT !.failed = g2.failed \/ g3.failed,
                                                             !.attempted = g2.attempted \/ g3.attempted])
                                   /\ old_data' = [old_data EXCEPT ![idx] = e3]
                                   /\ requests' = requests
                                        \cup Sent(g2, "_enrich_company", idx, r2)
                                        \cup Sent(g3, "_enrich_contact", idx, r3)
                                   /\ response' = IF g3.raised = "none" THEN r3 ELSE NoResponse
                          ELSE /\ SessionStep(g2)
                               /\ old_data' = [old_data EXCEPT ![idx] = e2]
                               /\ requests' = requests \cup Sent(g2, "_enrich_company", idx, r2)
                               /\ response' = IF g2.raised = "none" THEN r2 ELSE NoResponse
                       /\ idx' = IF idx = Len(old_data) THEN 0 ELSE idx + 1
                       /\ pc' = IF idx = Len(old_data) THEN "_json_to_csv" ELSE pc
                       /\ UNCHANGED <<env, key, tmp, uploaded, verdict, calls, input_csv, output_csv, disk, driver, called,
                                      merged_data, error, count>>

(* The object keys of the S3 events drawn: under the raw prefix with and
   without the .csv extension, under the enhanced prefix, elsewhere *)
Keys ==
    { [prefix |-> "raw", name |-> "data.csv"],
      [prefix |-> "raw", name |-> "data.txt"],
      [prefix |-> "enhanced", name |-> "data_enhanced.csv"],
      [prefix |-> "other", name |-> "data.csv"] }

(* key.startswith(RAW_PREFIX) *)
InRaw(k) == k.prefix = "raw"

(* f"{ENHANCED_PREFIX}{output_filename}" *)
enhanced_key(k) == [prefix |-> "enhanced", name |-> output_filename(k.name)]

(* What an S3 call can do: succeed or raise *)
S3Outcomes == {"ok", "ClientError"}

InitHandler ==
    /\ InitProcessor("handler", "handler")
    /\ key \in Keys
    /\ tmp = {}
    /\ uploaded = {}
    /\ verdict = "none"

(* except Exception as e: ... raise EnrichmentError(...) *)
HandlerRaises ==
    /\ pc' = "raised"
    /\ verdict' = "EnrichmentError"

(* handler, lines 44-57: the event is parsed and a key outside the raw prefix
   is answered 200 at once *)
handler_validate ==
    /\ pc = "handler"
    /\ IF ~InRaw(key)
       THEN pc' = "returned" /\ verdict' = "ignored"
       ELSE pc' = "download" /\ verdict' = verdict
    /\ UNCHANGED <<env, key, tmp, uploaded, calls, input_csv, output_csv, disk, driver, called,
                   old_data, merged_data, idx, jwt_token, last_auth_time, now, check_time,
                   issued, authFailed, requests, response, error, count>>

(* handler, lines 59-76: the object is downloaded to input_path and the
   processor is made *)
handler_download ==
    /\ pc = "download"
    /\ \E o \in S3Outcomes :
        IF o = "ok"
        THEN /\ tmp' = tmp \cup {key.name}
             /\ pc' = "get_valid_token"
             /\ verdict' = verdict
        ELSE /\ tmp' = tmp
             /\ HandlerRaises
    /\ UNCHANGED <<env, key, uploaded, calls, input_csv, output_csv, disk, driver, called,
                   old_data, merged_data, idx, jwt_token, last_auth_time, now, check_time,
                   issued, authFailed, requests, response, error, count>>

(* processor.process() raised: the handler's except clause *)
handler_except ==
    /\ driver = "handler"
    /\ pc = "aborted"
    /\ HandlerRaises
    /\ UNCHANGED <<env, key, tmp, uploaded, calls, input_csv, output_csv, disk, driver, called,
                   old_data, merged_data, idx, jwt_token, last_auth_time, now, check_time,
                   issued, authFailed, requests, response, error, count>>

(* handler, lines 78-80: s3_client.upload_file(output_path, bucket, enhanced_key) *)
handler_upload ==
    /\ driver = "handler"
    /\ pc = "done"
    /\ \E o \in S3Outcomes :
        IF o = "ok" /\ output_filename(key.name) \in tmp
        THEN /\ uploaded' = uploaded \cup {enhanced_key(key)}
             /\ pc' = "cleanup"
             /\ verdict' = verdict
        ELSE /\ uploaded' = uploaded
             /\ HandlerRaises
    /\ UNCHANGED <<env, key, tmp, calls, input_csv, output_csv, disk, driver, called,
                   old_data, merged_data, idx, jwt_token, last_auth_time, now, check_time,
                   issued, authFailed, requests, response, error, count>>

(* handler, lines 82-96: os.remove(input_path); os.remove(output_path); the
   200 return.  os.remove raises FileNotFoundError for a file that is not
   there, and what was removed stays removed. *)
handler_cleanup ==
    /\ pc = "cleanup"
    /\ LET input_name == key.name
           output_name == output_filename(key.name)
           after_first == tmp \ {input_name}
       IN IF input_name \notin tmp
          THEN tmp' = tmp /\ HandlerRaises
          ELSE IF output_name \notin after_first
          THEN tmp' = after_first /\ HandlerRaises
          ELSE /\ tmp' = after_first \ {output_name}
               /\ pc' = "returned"
               /\ verdict' = "processed"
    /\ UNCHANGED <<env, key, uploaded, calls, input_csv, output_csv, disk, driver, called,
                   old_data, merged_data, idx, jwt_token, last_auth_time, now, check_time,
                   issued, authFailed, requests, response, error, count>>

Next_handler ==
    \/ handler_validate
    \/ handler_download
    \/ process_get_valid_token
    \/ processor_csv_to_json
    \/ enrich_data_entry
    \/ processor_json_to_csv
    \/ handler_except
    \/ handler_upload
    \/ handler_cleanup

SpecHandler == InitHandler /\ [][Next_handler]_vars

Next_process ==
    \/ process_get_valid_token
    \/ processor_csv_to_json
    \/ enrich_data_entry
    \/ processor_json_to_csv

SpecLambda == InitProcess /\ [][Next_process]_vars

(* The program points of the driver that calls the methods one by one: the
   method it called last *)
MaxCalls == 3

MethodPoints ==
    {"methods", "_check_token", "_enrich_contact", "_enrich_company", "_update_needs_contact"}

(* processor._check_token() *)
call_check_token ==
    /\ pc \in MethodPoints
    /\ calls < MaxCalls
    /\ \E d \in DelaysFrom(now, Delays), outcome \in AuthOutcomes :
        LET g == _check_token(jwt_token, last_auth_time, issued, now + d, outcome)
        IN /\ (g.attempted \/ outcome = "ok")
           /\ SessionStep(g)
           /\ UNCHANGED <<requests, response>>
           /\ IF g.raised # "none"
              THEN Raise(g.raised)
              ELSE /\ pc' = "_check_token"
                   /\ calls' = calls + 1
                   /\ UNCHANGED <<env, key, tmp, uploaded, verdict, input_csv, output_csv, disk, driver, called, old_data,
                                  merged_data, idx, error, count>>

(* A call of an enrichment method on entry i: its _check_token, its request,
   its update of the entry *)
CallEnrich(method, responses, enrich(_, _, _)) ==
    /\ pc \in MethodPoints
    /\ calls < MaxCalls
    /\ \E i \in DOMAIN old_data, d \in DelaysFrom(now, Delays), outcome \in AuthOutcomes,
          resp \in LambdaAnswers(responses) :
        LET g == _check_token(jwt_token, last_auth_time, issued, now + d, outcome)
        IN /\ (g.attempted \/ outcome = "ok")
           /\ SessionStep(g)
           /\ old_data' = [old_data EXCEPT ![i] = enrich(old_data[i], g, resp)]
           /\ requests' = requests \cup Sent(g, method, i, resp)
           /\ response' = IF g.raised = "none" THEN resp ELSE NoResponse
           /\ idx' = i
           /\ pc' = method
           /\ calls' = calls + 1
           /\ UNCHANGED <<env, key, tmp, uploaded, verdict, input_csv, output_csv, disk, driver, called, merged_data,
                          error, count>>

(* processor._enrich_contact(entry) *)
call_enrich_contact ==
    /\ driver = "methods"
    /\ CallEnrich("_enrich_contact", LambdaContactResponses, _enrich_contact)

(* processor._enrich_company(entry) *)
call_enrich_company ==
    /\ driver = "methods"
    /\ CallEnrich("_enrich_company", LambdaCompanyResponses, _enrich_company)

(* processor._update_needs_contact(entry) *)
call_update_needs_contact ==
    /\ pc \in MethodPoints
    /\ calls < MaxCalls
    /\ \E i \in DOMAIN old_data :
        /\ old_data' = [old_data EXCEPT ![i] = _update_needs_contact(old_data[i])]
        /\ idx' = i
    /\ pc' = "_update_needs_contact"
    /\ response' = NoResponse
    /\ calls' = calls + 1
    /\ UNCHANGED <<env, key, tmp, uploaded, verdict, input_csv, output_csv, disk, driver, called, merged_data, jwt_token,
                   last_auth_time, now, check_time, issued, authFailed, requests, error,
                   count>>

Next_methods ==
    \/ processor_csv_to_json
    \/ call_check_token
    \/ call_enrich_contact
    \/ call_enrich_company
    \/ call_update_needs_contact

SpecMethods == InitMethods /\ [][Next_methods]_vars

(* fileConvert.csv_to_json(input_csv): the JSON file is written *)
file_csv_to_json ==
    /\ pc = "csv_to_json"
    /\ disk' = csv_to_json(input_csv)
    /\ pc' = "json_to_csv"
    /\ called' = called \cup {"csv_to_json"}
    /\ UNCHANGED <<env, key, tmp, uploaded, verdict, calls, input_csv, output_csv, driver, old_data, merged_data, idx,
                   jwt_token, last_auth_time, now, check_time, issued, authFailed,
                   requests, response, error, count>>

(* fileConvert.json_to_csv(input_json): the enhanced CSV file is written *)
file_json_to_csv ==
    /\ pc = "json_to_csv"
    /\ output_csv' = json_to_csv(disk)
    /\ pc' = "done"
    /\ called' = called \cup {"json_to_csv"}
    /\ UNCHANGED <<env, key, tmp, uploaded, verdict, calls, input_csv, disk, driver, old_data, merged_data, idx, jwt_token,
                   last_auth_time, now, check_time, issued, authFailed, requests,
                   response, error, count>>

Next_mapping ==
    \/ file_csv_to_json
    \/ file_json_to_csv
    \/ processor_csv_to_json
    \/ processor_json_to_csv

SpecMapping == InitMapping /\ [][Next_mapping]_vars

----------------------------------------------------------------------------
(* Properties *)

(* The fields the merge functions fill *)
MergeFields == FieldSet \cup {"firstName", "lastName", "emailAddress", "phone", "jobTitle"}

(* Field f of record e holds a non-empty value *)
NonEmpty(e, f) == f \in DOMAIN e /\ e[f] # ""

(* e2 keeps every non-empty mergeable field of e1 *)
Keeps(e1, e2) ==
    \A f \in MergeFields : NonEmpty(e1, f) => (f \in DOMAIN e2 /\ e2[f] = e1[f])

(* C1: fill-only merge.  In the stages contact_enrich, company_enrich,
   company_enrich_loose and add_new_contact, a mergeable field that holds a
   non-empty value keeps exactly that value: across every loop body (the
   entry in memory, after the merge step) and across every write of the
   dataset file. *)
C1_Step ==
    pc \in MergedStages =>
          /\ (idx \in 1..Len(old_data) /\ Len(old_data') = Len(old_data))
                => Keeps(old_data[idx], old_data'[idx])
          /\ \A i \in DOMAIN disk : i \in DOMAIN disk' /\ Keeps(disk[i], disk'[i])

C1_FillOnlyMerge == [][C1_Step]_vars

(* A merge has acted on an entry that held an e-mail address and no first
   name: the address is kept and the first name is filled. *)
C1_Witness ==
    /\ pc = "contact_enrich"
    /\ \E i \in DOMAIN merged_data :
          /\ merged_data[i]["emailAddress"] = "orig"
          /\ merged_data[i]["firstName"] = "zi"

(* C2: failure isolation in contact_enrich.  A non-success answer for a record
   does not abort the pass: the pass completes, and the record is then on
   disk with enrichmentStatus = Failed. *)
C2_FailureIsolation ==
    \A r \in requests :
        (r.stage = "contact_enrich" /\ r.status # 200) =>
            /\ pc # "aborted" \/ "contact_enrich" \in called
            /\ "contact_enrich" \in called => disk[r.rec]["enrichmentStatus"] = "Failed"

(* C3: the token refresh rule.  At each per-record check of a stage, with the
   clock read as check_time': if check_time' - last_auth_time >= 3300 the
   stage re-authenticates and both the token and the timestamp are replaced
   (the token by what authenticate returned, the timestamp by the clock read
   after it), unless authenticate raised and ended the run; if the elapsed
   time is below 3300 the pair is unchanged and nobody authenticates. *)
C3_Step ==
    (pc \in LoopStages /\ idx \in 1..Len(old_data)) =>
          IF check_time' - last_auth_time >= 3300
          THEN \/ /\ error' = "ConnectionError"
                  /\ UNCHANGED <<jwt_token, last_auth_time>>
               \/ /\ jwt_token' = (IF issued' = issued + 1 THEN issued' ELSE NoneToken)
                  /\ issued' = issued + 1 \/ authFailed'
                  /\ last_auth_time' = now'
                  /\ last_auth_time' >= check_time'
          ELSE UNCHANGED <<jwt_token, last_auth_time, issued, authFailed>>

C3_TokenRefresh == [][C3_Step]_vars

(* A check made exactly 3300 s after the token was issued has refreshed it. *)
C3_Witness ==
    /\ pc \in LoopStages
    /\ idx > 1
    /\ check_time = 3300
    /\ last_auth_time >= 3300
    /\ jwt_token = 2

(* C4: authentication failure is fatal.  Once an authenticate call has failed,
   the run is over: no further provider request is sent. *)
C4_AuthFailureFatal == [][authFailed => requests' = requests]_vars

(* C5: needsContact derivation.  updateNeedsContact leaves every record with
   needsContact = Yes when firstName, lastName, emailAddress and phone are all
   empty and with needsContact = No otherwise, changes nothing else, and
   returns the number of records flagged Yes. *)
C5_Step ==
    pc = "updateNeedsContact" =>
          /\ Len(disk') = Len(disk)
          /\ \A i \in DOMAIN disk' :
                /\ disk'[i]["needsContact"] \in {"Yes", "No"}
                /\ disk'[i]["needsContact"] = "Yes" <=>
                      \A f \in {"firstName", "lastName", "emailAddress", "phone"} :
                          disk'[i][f] = ""
                /\ \A f \in DOMAIN disk[i] \ {"needsContact"} : disk'[i][f] = disk[i][f]
          /\ count' = Cardinality({i \in DOMAIN disk' : disk'[i]["needsContact"] = "Yes"})

C5_NeedsContact == [][C5_Step]_vars

(* updateNeedsContact has flagged one record Yes and another No. *)
C5_Witness ==
    /\ "updateNeedsContact" \in called
    /\ count = 1
    /\ \E i, j \in DOMAIN disk :
          disk[i]["needsContact"] = "Yes" /\ disk[j]["needsContact"] = "No"

(* C6: strict-to-loose cascade.  A record whose strict company match produced
   a usable result receives no loose request. *)
C6_LooseOnlyAfterStrictMiss ==
    \A r \in requests :
        r.stage = "company_enrich_loose" =>
            ~ \E q \in requests :
                  q.stage = "company_enrich" /\ q.rec = r.rec /\ q.usable

(* C7: tier precedence.  A record for which the company-scoped strict search
   returned a person identifier has contactMatchCriteria = companyId_strict
   once the strict search pass is written. *)
C7_TierPrecedence ==
    \A r \in requests :
        (r.stage = "contact_search_strict" /\ r.usable
         /\ "contact_search_strict" \in called) =>
            disk[r.rec]["contactMatchCriteria"] = "companyId_strict"

(* C8: order preservation.  The dataset file always holds as many records as
   the input CSV had rows, and record i is the record made from row i (it
   carries row i's Site ID). *)
C8_OrderPreserved ==
    /\ Len(disk) = RowsOf(env)
    /\ \A i \in DOMAIN disk : disk[i]["siteID"] = SiteId(i)

(* Every stage has completed on a two-record dataset, and a record was
   mutated on the way. *)
C8_Witness ==
    /\ pc = "done"
    /\ Len(disk) = 2
    /\ disk[2]["firstName"] = "zi"
    /\ disk[1]["firstName"] # "zi"

(* C9: end-of-stage checkpointing.  A stage loads the dataset file when it
   starts; while it runs, no step but its final write changes the file, so a
   stage that aborts at any record leaves the file as it was when the stage
   started. *)
C9_Step ==
    pc \in LoopStages =>
          /\ idx = 0 => (old_data' = disk /\ disk' = disk)
          /\ idx \in 1..Len(old_data) => disk' = disk
          /\ pc' = "aborted" => disk' = disk

C9_Checkpoint == [][C9_Step]_vars

(* contact_enrich aborted at record 2 after it had merged a match into record
   1 in memory; the file still holds record 1 as it was. *)
C9_Witness ==
    /\ pc = "aborted"
    /\ "contact_enrich" \notin called
    /\ \E r \in requests : r.stage = "contact_enrich" /\ r.rec = 1 /\ r.usable
    /\ \E r \in requests : r.stage = "contact_enrich" /\ r.rec = 2
    /\ disk[1]["firstName"] = ""

(* A record in a final state of the per-record state machine *)
Final(record) ==
    /\ record["needsContact"] \in {"Yes", "No"}
    /\ record["needsContact"] = "Yes" => record["newContactFound"] \in {"Yes", "No"}

(* C10: per-record terminal outcome.  When a run in which authentication never
   failed has ended, every record is in a final state. *)
C10_TerminalOutcome ==
    (pc \in {"done", "aborted"} /\ ~authFailed) => \A i \in DOMAIN disk : Final(disk[i])

(* The stages of a run, in the order the run is to execute them *)
RunStages ==
    << "remove_spaces", "contact_enrich", "company_enrich", "company_enrich_loose",
       "updateNeedsContact", "contact_search", "add_new_contact", "update_address" >>

(* C11: stage ordering.  The stages that have completed are always a prefix of
   the order Contact Enrichment, Company Enrichment strict, Company Enrichment
   loose, needsContact flagging, Contact Search, New-Contact Hydration,
   address backfill; and a run that has got past the needsContact flagging
   ends only after the search, the hydration and the address backfill. *)
C11_StageOrdering ==
    /\ \A j \in 1..Len(RunStages) :
          RunStages[j] \in called => \A k \in 1..(j - 1) : RunStages[k] \in called
    /\ (pc \in {"done", "aborted"} /\ "updateNeedsContact" \in called) =>
          /\ pc = "done"
          /\ {"add_new_contact", "update_address"} \subseteq called

(* The fill-only merge of the four contact fields of person p into entry e *)
ContactMerged(e, p) ==
    [k \in DOMAIN e |->
        CASE k = "firstName" /\ e[k] = "" -> p["firstName"]
          [] k = "lastName" /\ e[k] = "" -> p["lastName"]
          [] k = "emailAddress" /\ e[k] = "" -> p["email"]
          [] k = "phone" /\ e[k] = "" -> p["phone"]
          [] OTHER -> e[k]]

(* C12: the match-status rule of contact_enrich.  On a successful response
   with a first result: when the result's matchStatus is CONTACT_ONLY_MATCH or
   FULL_MATCH and it carries a person with the four fields, the entry appended
   is the fill-only merge of firstName, lastName, emailAddress and phone (so
   an entry with the four fields empty and a fully populated FULL_MATCH person
   ends with all four populated and enrichmentStatus not Failed); for any other
   match status the entry is appended unchanged. *)
C12_Step ==
    (/\ pc = "contact_enrich"
     /\ idx \in 1..Len(old_data)
     /\ response'.status = 200
     /\ response'.success
     /\ Len(response'.result) > 0) =>
        LET e == old_data[idx]
            res == response'.result[1]
        IN IF res.matchStatus \in {"CONTACT_ONLY_MATCH", "FULL_MATCH"}
           THEN (/\ Len(res.data) > 0
                 /\ {"firstName", "lastName", "email", "phone"} \subseteq DOMAIN res.data[1]) =>
                    /\ pc' = pc
                    /\ merged_data' = Append(merged_data, ContactMerged(e, res.data[1]))
                    /\ (res.data[1] = PersonFull /\ NeedsContactValue(e) = "Yes") =>
                          /\ \A f \in {"firstName", "lastName", "emailAddress", "phone"} :
                                merged_data'[idx][f] = "zi"
                          /\ merged_data'[idx]["enrichmentStatus"] # "Failed"
           ELSE /\ pc' = pc
                /\ merged_data' = Append(merged_data, e)

C12_MatchStatusRule == [][C12_Step]_vars

(* contact_enrich has merged a FULL_MATCH person into an entry whose four
   contact fields were empty. *)
C12_Witness ==
    /\ pc = "contact_enrich"
    /\ idx > 1
    /\ response = Ok(<< [matchStatus |-> "FULL_MATCH", data |-> <<PersonFull>>] >>)
    /\ disk[idx - 1]["emailAddress"] = ""
    /\ NeedsContactValue(merged_data[idx - 1]) = "No"
    /\ merged_data[idx - 1]["phone"] = "zi"
    /\ merged_data[idx - 1]["enrichmentStatus"] = "Success"

(* C13: per-record outcomes of company enrichment.  A non-2xx answer or a
   usable result for a record does not end the pass of company_enrich or
   company_enrich_loose (only a failed authentication does), and once the
   pass has completed a record that got a non-2xx answer is persisted with
   enrichmentStatus = Failed. *)
C13_CompanyOutcomes ==
    \A r \in requests :
        (r.stage \in {"company_enrich", "company_enrich_loose"}
         /\ (r.status # 200 \/ r.usable)) =>
            /\ ~(pc = "aborted" /\ r.stage \notin called /\ error # "ConnectionError")
            /\ (r.stage \in called /\ r.status # 200) =>
                  disk[r.rec]["enrichmentStatus"] = "Failed"

(* The search stages *)
SearchStages == {"contact_search_strict", "contact_search_loose"}

(* C14: contact-search outcome.  Once the strict and the loose search have
   completed, every record with needsContact = Yes either got a person
   identifier from one of them and has personId set to it and newContactFound
   = Yes, or got none and has newContactFound = No and personId empty; and no
   record, in the file or in a stage's memory, has newContactFound = Yes with
   an empty personId. *)
C14_SearchOutcome ==
    /\ "contact_search_loose" \in called =>
          \A i \in DOMAIN disk :
              disk[i]["needsContact"] = "Yes" =>
                  IF \E r \in requests : r.stage \in SearchStages /\ r.rec = i /\ r.usable
                  THEN disk[i]["personId"] = "p1" /\ disk[i]["newContactFound"] = "Yes"
                  ELSE disk[i]["personId"] = "" /\ disk[i]["newContactFound"] = "No"
    /\ \A i \in DOMAIN disk : disk[i]["newContactFound"] = "Yes" => disk[i]["personId"] # ""
    /\ \A i \in DOMAIN old_data :
          old_data[i]["newContactFound"] = "Yes" => old_data[i]["personId"] # ""

(* The cascade has completed with a record found by the loose search only and
   a record for which the strict search sent a request and found nobody. *)
C14_Witness ==
    /\ "contact_search_loose" \in called
    /\ \E i \in DOMAIN disk :
          /\ disk[i]["needsContact"] = "Yes"
          /\ disk[i]["personId"] = "p1"
          /\ disk[i]["newContactFound"] = "Yes"
          /\ disk[i]["contactMeetsCriteria"] = "No"
          /\ \E r \in requests : r.stage = "contact_search_strict" /\ r.rec = i /\ ~r.usable

(* add_new_contact is the stage that is running or that was ended by an
   exception *)
Hydrating ==
    /\ driver = "stages"
    /\ "contact_search_loose" \in called
    /\ "add_new_contact" \notin called

(* The fields update_new_contact_data reads from the person *)
PersonFields == {"firstName", "lastName", "email", "phone", "jobTitle"}

(* A successful answer whose first result carries a person with every field *)
WellFormed(resp) ==
    /\ resp.status = 200
    /\ resp.success
    /\ Len(resp.result) > 0
    /\ Len(resp.result[1].data) > 0
    /\ PersonFields \subseteq DOMAIN resp.result[1].data[1]

(* C15: hydration gate and merge.  add_new_contact sends a request for a
   record exactly when the record has needsContact = Yes and a non-empty
   personId, and a successful result for such a record is merged and the
   pass goes on: it does not end the pass. *)
C15_HydrationGateMerge ==
    /\ \A r \in requests :
          (r.stage = "add_new_contact" /\ pc # "aborted") =>
              /\ disk[r.rec]["needsContact"] = "Yes"
              /\ disk[r.rec]["personId"] # ""
    /\ "add_new_contact" \in called =>
          \A i \in DOMAIN disk :
              (disk[i]["needsContact"] = "Yes" /\ disk[i]["personId"] # "") =>
                  \E r \in requests : r.stage = "add_new_contact" /\ r.rec = i
    /\ (Hydrating /\ WellFormed(response)) => pc # "aborted"

(* C16: hydration tolerates malformed responses.  A successful answer of a
   malformed shape (no result, a result without a person, a person without
   one of the fields) does not end the pass of add_new_contact. *)
C16_MalformedTolerated ==
    (Hydrating /\ response.status = 200 /\ response.success /\ ~WellFormed(response))
        => pc # "aborted"

(* C17: per-record API failures are never fatal.  No pass is ended by a
   non-2xx answer of the provider: when the run has been ended by an
   exception, the loop body that raised it had received no answer (it was
   the authentication that failed, or a call outside the passes) or an
   HTTP 200 answer. *)
C17_NeverFatal == pc = "aborted" => response.status \in {NoResponse.status, 200}

(* A successful (HTTP 200) answer without a usable result: success false, an
   empty result list, or a first result of a non-matching match status *)
NoMatch(resp) ==
    /\ resp.status = 200
    /\ \/ ~resp.success
       \/ Len(resp.result) = 0
       \/ /\ Has(resp.result[1], "matchStatus")
          /\ resp.result[1]["matchStatus"] \notin {"CONTACT_ONLY_MATCH", "FULL_MATCH"}

(* C18: no-match is not an error.  A no-match answer does not end the pass,
   and the entry a merging stage appends after it is the entry as loaded. *)
C18_NoMatchNotAnError ==
    NoMatch(response) =>
        /\ pc # "aborted"
        /\ (pc \in MergedStages /\ idx > 1) => merged_data[idx - 1] = disk[idx - 1]

(* The company enrichment stages *)
CompanyStages == {"company_enrich", "company_enrich_loose"}

(* Every allow-listed company field of the entry holds a value *)
FullyEnriched(e) == \A f \in FieldSet : NonEmpty(e, f)

(* C19 as stated: company enrichment of an entry whose allow-listed company
   fields are all non-empty appends the entry unchanged, whatever the
   provider answered. *)
C19_AnyAnswer_Step ==
    (/\ pc \in CompanyStages
     /\ idx \in 1..Len(old_data)
     /\ FullyEnriched(old_data[idx])
     /\ response' # NoResponse) =>
        /\ pc' = pc
        /\ merged_data' = Append(merged_data, old_data[idx])

C19_Idempotent == [][C19_AnyAnswer_Step]_vars

(* C19, amended: company enrichment of an entry whose allow-listed company
   fields are all non-empty appends the entry unchanged for every HTTP 200
   answer; for a non-200 answer it appends the entry with enrichmentStatus =
   Failed and errorMessage set to the error body and every other field
   unchanged.  In both cases the pass goes on. *)
C19_Amended_Step ==
    (/\ pc \in CompanyStages
     /\ idx \in 1..Len(old_data)
     /\ FullyEnriched(old_data[idx])
     /\ response' # NoResponse) =>
        /\ pc' = pc
        /\ merged_data' = Append(merged_data,
              IF response'.status = 200 THEN old_data[idx]
              ELSE [k \in DOMAIN old_data[idx] |->
                      CASE k = "enrichmentStatus" -> "Failed"
                        [] k = "errorMessage" -> response'.text
                        [] OTHER -> old_data[idx][k]])

C19_IdempotentOn200 == [][C19_Amended_Step]_vars

(* company_enrich_loose has run on an entry that company_enrich had fully
   enriched, got a usable result with other values, and left it as it was. *)
C19_Witness ==
    /\ pc = "company_enrich_loose"
    /\ idx > 1
    /\ response = Ok(<< [data |-> CompanyPartial("ziB")] >>)
    /\ FullyEnriched(disk[idx - 1])
    /\ merged_data[idx - 1] = disk[idx - 1]

(* C20: company_match_criteria is recorded.  After the company enrichment
   passes every record holds company_match_criteria: Strict when the strict
   pass got a usable result for it, Non-strict when only the loose pass did,
   None when neither did. *)
C20_MatchCriteriaRecorded ==
    "company_enrich_loose" \in called =>
        \A i \in DOMAIN disk :
            LET strict == \E r \in requests :
                              r.stage = "company_enrich" /\ r.rec = i /\ r.usable
                loose == \E r \in requests :
                              r.stage = "company_enrich_loose" /\ r.rec = i /\ r.usable
            IN /\ Has(disk[i], "company_match_criteria")
               /\ disk[i]["company_match_criteria"] =
                      (IF strict THEN "Strict" ELSE IF loose THEN "Non-strict" ELSE "None")

(* C21: the token guard precedes every request.  In every stage of both
   drivers, a step that sends a provider request has checked the session
   first, and the token it sends was younger than 3300 seconds at that check
   (the most recent one): check_time' is the clock that check read,
   last_auth_time' the timestamp of the token the request carries. *)
C21_Step ==
    requests' # requests =>
        /\ last_auth_time' # NoneTime
        /\ check_time' - last_auth_time' < 3300

C21_TokenGuard == [][C21_Step]_vars

(* C22: the refresh boundary of EnrichmentProcessor.  For a session whose
   token was issued at T = last_auth_time, a _check_token (called directly or
   by _enrich_contact / _enrich_company) that reads a clock before T + 3300
   re-authenticates nobody and leaves token and timestamp unchanged; one that
   reads a clock at or after T + 3300 authenticates exactly once and, unless
   that call failed, the token is the new one and the timestamp the clock the
   check read. *)
C22_Step ==
    (/\ driver = "methods"
     /\ pc' \in {"_check_token", "_enrich_contact", "_enrich_company"}
     /\ jwt_token # NoneToken
     /\ last_auth_time # NoneTime) =>
        IF check_time' - last_auth_time < 3300
        THEN UNCHANGED <<jwt_token, last_auth_time, issued, authFailed>>
        ELSE \/ /\ authFailed'
                /\ UNCHANGED <<jwt_token, last_auth_time, issued>>
             \/ /\ issued' = issued + 1
                /\ jwt_token' = issued'
                /\ last_auth_time' = check_time'

C22_RefreshBoundary == [][C22_Step]_vars

(* The identity fields _update_needs_contact reads *)
IdentityFields == {"firstName", "lastName", "emailAddress", "phone"}

(* The methods of EnrichmentProcessor that send a provider request *)
EnrichMethods == {"_enrich_contact", "_enrich_company"}

(* C23: fill-only merge in EnrichmentProcessor.  For every record and every
   provider response, a mergeable field that is non-empty before
   _enrich_contact or _enrich_company holds the same value afterwards, and an
   empty firstName becomes the provider's firstName when _enrich_contact got a
   full match that supplies one. *)
C23_Step ==
    (driver = "methods" /\ pc' \in EnrichMethods) =>
        /\ Keeps(old_data[idx'], old_data'[idx'])
        /\ (/\ pc' = "_enrich_contact"
            /\ response' = Ok(<< [matchStatus |-> "FULL_MATCH", data |-> PersonFull] >>)
            /\ old_data[idx']["firstName"] = "")
              => old_data'[idx']["firstName"] = PersonFull.firstName

C23_FillOnlyProcessor == [][C23_Step]_vars

(* C24: needsContact derivation in EnrichmentProcessor.  _update_needs_contact
   sets needsContact = Yes when firstName, lastName, emailAddress and phone
   are all empty, and needsContact = No when any one of them is non-empty. *)
C24_Step ==
    (driver = "methods" /\ pc' = "_update_needs_contact") =>
        old_data'[idx']["needsContact"] =
            (IF \A f \in IdentityFields : ~NonEmpty(old_data[idx'], f)
             THEN "Yes" ELSE "No")

C24_NeedsContactProcessor == [][C24_Step]_vars

(* C25: error containment in EnrichmentProcessor.  When the provider call of
   _enrich_contact or _enrich_company raises or answers with a non-200 status,
   the method does not raise, returns the same entry (same keys), leaves
   every field of it other than enrichmentStatus unchanged, and touches no
   other entry. *)
C25_Step ==
    (/\ driver = "methods"
     /\ pc' \in EnrichMethods
     /\ response' # NoResponse
     /\ response'.status # 200) =>
        /\ error' = "none"
        /\ DOMAIN old_data'[idx'] = DOMAIN old_data[idx']
        /\ \A k \in DOMAIN old_data[idx'] \ {"enrichmentStatus"} :
              old_data'[idx'][k] = old_data[idx'][k]
        /\ \A i \in DOMAIN old_data \ {idx'} : old_data'[i] = old_data[i]

C25_ErrorContained == [][C25_Step]_vars

(* _enrich_contact has returned an entry with a name and a company after its
   request raised: only the status tells *)
C25_Witness ==
    /\ driver = "methods"
    /\ pc = "_enrich_contact"
    /\ response = Unreachable
    /\ old_data[idx]["enrichmentStatus"] = "Error: ConnectionError"
    /\ NonEmpty(old_data[idx], "firstName")
    /\ NonEmpty(old_data[idx], "companyName")
    /\ old_data[idx]["errorMessage"] = ""

(* C26: the output of EnrichmentProcessor.process().  Once process() has
   completed, the output CSV has one row per input row, in input order, each
   row keeps its original Supplier Company value, and each row's Needs New
   Contact value is Yes or No. *)
C26_ProcessOutput ==
    (driver = "process" /\ pc = "done") =>
        /\ Len(output_csv) = Len(input_csv)
        /\ \A i \in DOMAIN input_csv :
              /\ Get(output_csv[i], "Supplier Company", "None")
                    = Get(input_csv[i], "Supplier Company", "None")
              /\ Get(output_csv[i], "Needs New Contact", "None") \in {"Yes", "No"}

(* The records the conversion under test produced: the JSON file of
   csv_to_json, self.data of _csv_to_json *)
Converted == IF "csv_to_json" \in called THEN disk ELSE old_data

(* Every freshly converted record has enrichmentStatus = Success and the
   provider and bookkeeping fields present and empty *)
FreshRecords ==
    \A i \in DOMAIN Converted :
        /\ Get(Converted[i], "enrichmentStatus", "None") = "Success"
        /\ \A f \in DOMAIN new_json_values \ {"enrichmentStatus"} :
              Get(Converted[i], f, "None") = ""

(* C27 as stated: mapping round trip.  Converting a CSV to records
   (_csv_to_json / csv_to_json) and straight back (_json_to_csv /
   json_to_csv) yields the same number of rows, every mapped input column
   carries its original value under its original header, and every freshly
   converted record starts with enrichmentStatus = Success and the provider
   fields present and empty. *)
C27_RoundTrip ==
    (driver = "mapping" /\ pc = "done") =>
        /\ Len(output_csv) = Len(input_csv)
        /\ \A i \in DOMAIN input_csv :
              \A h \in DOMAIN input_csv[i] \cap DOMAIN header_mapping :
                  Get(output_csv[i], h, "None") = input_csv[i][h]
        /\ FreshRecords

(* C27 amended: mapping round trip.  The round trip yields the same number of
   rows and fresh records as stated; a mapped input column carries, under its
   original header, its original value after csv_to_json / json_to_csv and
   its original value without the surrounding whitespace after _csv_to_json /
   _json_to_csv. *)
C27_RoundTripStripped ==
    (driver = "mapping" /\ pc = "done") =>
        /\ Len(output_csv) = Len(input_csv)
        /\ \A i \in DOMAIN input_csv :
              \A h \in DOMAIN input_csv[i] \cap DOMAIN header_mapping :
                  Get(output_csv[i], h, "None") =
                      (IF "csv_to_json" \in called
                       THEN input_csv[i][h]
                       ELSE strip(input_csv[i][h]))
        /\ FreshRecords

(* EnrichmentProcessor has converted a CSV with a padded company name and
   written it back without the padding *)
C27_Witness ==
    /\ driver = "mapping"
    /\ pc = "done"
    /\ "_json_to_csv" \in called
    /\ \E i \in DOMAIN input_csv :
          /\ input_csv[i]["Supplier Company"] = " orig "
          /\ output_csv[i]["Supplier Company"] = "orig"

(* C28: both invocation surfaces sequence the same stages.  What main applies
   to every record, process() applies too: once process() has completed
   without an authentication failure, every record has been sent to contact
   enrichment (the first provider stage of main, which sends one request per
   record), and has had its needsContact derived (Yes or No) as
   updateNeedsContact does before the company stages. *)
C28_SameStages ==
    (driver = "process" /\ pc = "done" /\ ~authFailed) =>
        \A i \in DOMAIN old_data :
            /\ \E r \in requests : r.stage = "_enrich_contact" /\ r.rec = i
            /\ old_data[i]["needsContact"] \in {"Yes", "No"}

(* An earlier tier has produced a person identifier for record i *)
Found(i) ==
    \E r \in requests : r.stage \in SearchStages /\ r.rec = i /\ r.usable

(* C29: contact search gating and short-circuit.  A loop body of a search
   stage sends a request for a record only if its needsContact is Yes; and
   once one tier has produced a person identifier for a record, the loop body
   of a later tier sends no request for it and leaves the record (its
   personId, newContactFound and match-tier label included) as it is. *)
C29_Step ==
    (/\ pc \in SearchStages
     /\ idx \in DOMAIN old_data
     /\ pc' # "aborted") =>
        /\ requests' # requests => Get(old_data[idx], "needsContact", "None") = "Yes"
        /\ Found(idx) =>
              /\ requests' = requests
              /\ response' = NoResponse
              /\ old_data'[idx] = old_data[idx]

C29_SearchGating == [][C29_Step]_vars

(* The loose search has passed over a record the strict search had found a
   person for: no loose request for it, the strict outcome still in place *)
C29_Witness ==
    /\ pc = "contact_search_loose"
    /\ idx > 1
    /\ \E r \in requests : r.stage = "contact_search_strict" /\ r.rec = idx - 1 /\ r.usable
    /\ ~\E r \in requests : r.stage = "contact_search_loose" /\ r.rec = idx - 1
    /\ old_data[idx - 1]["newContactFound"] = "Yes"
    /\ old_data[idx - 1]["personId"] = "p1"
    /\ old_data[idx - 1]["contactMeetsCriteria"] = "Yes"

(* C30: search is skipped without error when no identifier is available.  For
   a record with needsContact = Yes and neither a location identifier nor a
   company identifier, the loop body of a search stage sends no request, the
   outcome is no-match (newContactFound = No, personId empty), and the
   record's enrichmentStatus and errorMessage are not changed. *)
C30_Step ==
    (/\ pc \in SearchStages
     /\ idx \in DOMAIN old_data
     /\ pc' # "aborted"
     /\ Get(old_data[idx], "needsContact", "None") = "Yes"
     /\ ~Truthy(Get(old_data[idx], "zi_c_company_id", ""))
     /\ ~Truthy(Get(old_data[idx], "zi_c_location_id", ""))) =>
        /\ requests' = requests
        /\ response' = NoResponse
        /\ old_data'[idx]["newContactFound"] = "No"
        /\ Get(old_data'[idx], "personId", "") = ""
        /\ old_data'[idx]["enrichmentStatus"] = old_data[idx]["enrichmentStatus"]
        /\ old_data'[idx]["errorMessage"] = old_data[idx]["errorMessage"]

C30_SearchSkipped == [][C30_Step]_vars

(* The strict search has passed over a record that needs a contact and has
   no company identifier: no request, no match, no error recorded *)
C30_Witness ==
    /\ pc = "contact_search_strict"
    /\ idx > 1
    /\ old_data[idx - 1]["needsContact"] = "Yes"
    /\ old_data[idx - 1]["zi_c_company_id"] = ""
    /\ old_data[idx - 1]["zi_c_location_id"] = ""
    /\ old_data[idx - 1]["newContactFound"] = "No"
    /\ old_data[idx - 1]["personId"] = ""
    /\ old_data[idx - 1]["enrichmentStatus"] = "Success"
    /\ ~\E r \in requests : r.stage = "contact_search_strict" /\ r.rec = idx - 1

(* C31: session threading across stages.  The (token, timestamp) pair a stage
   returns is the pair the next stage starts with: nothing between the last
   loop body of one stage and the first of the next touches it.  The
   timestamp never decreases.  A refresh performed in one stage is honoured
   by every later one: whenever a loop body re-authenticates, the clock its
   check read is at least 3300 seconds after the timestamp of the previous
   authentication. *)
C31_Step ==
    /\ (pc # "authenticate" /\ pc' # "aborted" /\ (pc' # pc \/ idx = 0))
          => UNCHANGED <<jwt_token, last_auth_time>>
    /\ last_auth_time' >= last_auth_time
    /\ (pc \in LoopStages /\ (issued' # issued \/ last_auth_time' # last_auth_time))
          => check_time' - last_auth_time >= 3300

C31_SessionThreaded == [][C31_Step]_vars

(* company_enrich has checked, 3299 seconds later, the session contact_enrich
   had refreshed, and kept it *)
C31_Witness ==
    /\ pc = "company_enrich"
    /\ idx = 2
    /\ issued = 2
    /\ jwt_token = 2
    /\ "contact_enrich" \in called
    /\ check_time - last_auth_time = 3299

(* The company tiers *)
CompanyTiers == {"company_enrich", "company_enrich_loose"}

(* The requests logged for record i in stage st *)
RequestsFor(st, i, log) == {r \in log : r.stage = st /\ r.rec = i}

(* C32: bounded HTTP-400 retry in company enrichment.  In each company tier
   the loop body of a record sends at most two requests; it sends a second
   one exactly when the first, sent with the record's email, was answered
   HTTP 400 (the retry, without the email), and the record is given up on
   only after that. *)
C32_Step ==
    (/\ pc \in CompanyTiers
     /\ idx \in DOMAIN old_data
     /\ pc' # "aborted") =>
        LET sent == RequestsFor(pc, idx, requests')
            withEmail == Truthy(Get(old_data[idx], "emailAddress", ""))
        IN /\ Cardinality(sent) <= 2
           /\ (\E r \in sent : r.status = 400) /\ withEmail => Cardinality(sent) = 2
           /\ ~(\E r \in sent : r.status = 400) => Cardinality(sent) = 1

C32_Retry400 == [][C32_Step]_vars

(* The address fields of a record are all empty *)
NoAddress(e) == \A j \in 1..4 : ~Truthy(Get(e, AddressKeys[j], ""))

(* C33: address backfill is all-or-nothing.  update_address copies
   zi_c_street, zi_c_city, zi_c_state and zi_c_zip into companyStreet,
   companyCity, companyState and companyZipCode of the records whose four
   company address fields are all empty; a record with any one of the four
   non-empty keeps all four; and no other field of any record changes. *)
C33_Step ==
    pc = "update_address" =>
        /\ Len(disk') = Len(disk)
        /\ \A i \in DOMAIN disk :
              /\ \A j \in 1..4 :
                    Get(disk'[i], AddressKeys[j], "None") =
                        (IF NoAddress(disk[i])
                         THEN Get(disk[i], ZiAddressKeys[j], "")
                         ELSE Get(disk[i], AddressKeys[j], "None"))
              /\ \A k \in DOMAIN disk[i] \ {AddressKeys[j] : j \in 1..4} :
                    k \in DOMAIN disk'[i] /\ disk'[i][k] = disk[i][k]
              /\ DOMAIN disk'[i] \subseteq DOMAIN disk[i] \cup {AddressKeys[j] : j \in 1..4}

C33_AddressAllOrNothing == [][C33_Step]_vars

(* update_address has passed over a record with a street and no city, whose
   provider city is known: the city is still empty *)
C33_Witness ==
    /\ driver = "address"
    /\ "update_address" \in called
    /\ disk[1]["companyStreet"] = "orig"
    /\ disk[1]["companyCity"] = ""
    /\ disk[1]["zi_c_city"] = "ziA"

(* A provider request made for record i got a non-200 answer *)
HadError(i) == \E r \in requests : r.rec = i /\ r.status # 200

(* C34: failure status is sticky in the desktop pipeline.  When a run has
   ended, a record of the file has enrichmentStatus = Failed if and only if
   a provider request made for it in some stage got a non-200 answer, and
   every other record still has the Success it started with. *)
C34_StickyFailure ==
    pc \in {"done", "aborted"} =>
        \A i \in DOMAIN disk :
            /\ disk[i]["enrichmentStatus"] \in {"Success", "Failed"}
            /\ disk[i]["enrichmentStatus"] = "Failed" <=> HadError(i)

(* C35: no request with a missing token.  In a desktop run, every step that
   sends a provider request sends it with a token that a successful
   authentication returned (one of the tokens issued so far, never None),
   also after a re-authentication that got a non-200 answer. *)
C35_Step ==
    (driver = "main" /\ requests' # requests) =>
        /\ jwt_token' # NoneToken
        /\ jwt_token' \in 1..issued'

C35_TokenPresent == [][C35_Step]_vars

(* The provider results the filled company fields of record e come from: the
   model's results carry one value each (ziA, ziB) in all their fields *)
Provenance(e) == {e[f] : f \in {g \in FieldSet \cap DOMAIN e : e[g] # ""}}

(* C36: single provenance of company data.  After the strict and the loose
   company pass, the provider-derived company fields of a record that were
   filled during the run all come from one provider result: fields filled by
   the strict result are not combined with fields of a different loose
   result. *)
C36_SingleProvenance ==
    "company_enrich_loose" \in called =>
        \A i \in DOMAIN disk : Cardinality(Provenance(disk[i])) <= 1

(* The search and hydration stages *)
ContactStages == SearchStages \cup {"add_new_contact"}

(* C37: records that do not need a contact are untouched by the search and
   hydration stages.  For a record with needsContact = No the loop body of
   contact_search_strict, contact_search_loose and add_new_contact sends no
   provider request and leaves every field as it is: the entry the stage
   keeps for the file is the entry it read. *)
C37_Step ==
    (/\ pc \in ContactStages
     /\ idx \in DOMAIN old_data
     /\ pc' # "aborted"
     /\ Get(old_data[idx], "needsContact", "None") = "No") =>
        /\ requests' = requests
        /\ response' = NoResponse
        /\ IF pc \in MergedStages
           THEN merged_data' = Append(merged_data, old_data[idx])
           ELSE old_data' = old_data

C37_NoContactUntouched == [][C37_Step]_vars

(* The three stages have passed over a record that needs no contact: it was
   sent nowhere and is in memory as it is in the file *)
C37_Witness ==
    /\ pc = "add_new_contact"
    /\ idx > 1
    /\ disk[idx - 1]["needsContact"] = "No"
    /\ merged_data[idx - 1] = disk[idx - 1]
    /\ ~\E r \in requests : r.stage \in ContactStages /\ r.rec = idx - 1

(* C38: the requests of EnrichmentProcessor.process().  Once process() has
   completed without an authentication failure, every record has been sent
   one company-enrichment request, and every record that came with
   firstName, lastName, emailAddress and phone all empty has in addition been
   sent a contact-enrichment request. *)
C38_ProcessRequests ==
    (driver = "process" /\ pc = "done" /\ ~authFailed) =>
        \A i \in DOMAIN input_csv :
            /\ Cardinality(RequestsFor("_enrich_company", i, requests)) = 1
            /\ (\A f \in IdentityFields : ~NonEmpty(_csv_to_json(input_csv)[i], f))
                  => RequestsFor("_enrich_contact", i, requests) # {}

(* C39: the triggered handler cannot re-trigger itself.  The handler
   processes an object only if its key is under the raw prefix, and otherwise
   returns 200 having downloaded, enriched and uploaded nothing; every
   object it uploads has a key under the enhanced prefix, which it would
   ignore; and when handling fails with EnrichmentError no output object has
   been uploaded. *)
C39_NoRetrigger ==
    driver = "handler" =>
        /\ ~InRaw(key) =>
              /\ pc \in {"handler", "returned"}
              /\ tmp = {} /\ uploaded = {} /\ requests = {} /\ old_data = <<>>
              /\ pc = "returned" => verdict = "ignored"
        /\ verdict = "ignored" => ~InRaw(key)
        /\ \A k \in uploaded : k.prefix = "enhanced" /\ ~InRaw(k)
        /\ verdict = "EnrichmentError" => uploaded = {}

====
